---- MODULE Spec2Model ----
(***************************************************************************)
(* EdiFy: the provider adapter (services/aiService.ts), the generation     *)
(* orchestrator (hooks/useAI.ts) and its calling view                      *)
(* (components/ResourceViewer.tsx).                                        *)
(*                                                                         *)
(* Text.  A JavaScript string is a sequence of chunks.  A literal of the   *)
(* source is one chunk (<<"Invalid API key">>); text that the code         *)
(* inspects (a vendor message searched with includes(), a model reply      *)
(* scanned for brackets and handed to JSON.parse) is one chunk per         *)
(* character or per JSON token.  "" is <<>>, + and template strings are \o.*)
(*                                                                         *)
(* JavaScript values of more than one type are tagged records, tag in t.   *)
(***************************************************************************)
EXTENDS Integers, Sequences, FiniteSets, TLC

VARIABLES
    apiKey,           \* APIKeyContext apiKey seen by the hook
    provider,         \* APIKeyContext provider identifier seen by the hook
    resourceContent,  \* useAI(resourceContent)
    loading,          \* useAI: useState(false)
    error,            \* useAI: useState<APIError | null>(null)
    calls,            \* hook operations suspended at `await aiService.*`
    issued,           \* number of hook operations invoked so far
    netCalls,         \* number of fetch() requests issued so far
    last,             \* the most recently completed hook operation
    lastFailure,      \* the most recently completed chat/summary whose call failed
    activeTab,        \* ResourceViewer: useState('chat')
    chatMessage,      \* ResourceViewer: useState('')
    chatHistory,      \* ResourceViewer: useState([greeting])
    summary,          \* ResourceViewer: useState('')
    flashcards,       \* ResourceViewer: useState([])
    quiz,             \* ResourceViewer: useState([])
    loadedTabs,       \* ResourceViewer: useState(new Set())
    adapter,          \* a call of an AIService method made directly
    storedKey,        \* localStorage item 'edify_api_key'
    storedProvider,   \* localStorage item 'edify_provider'
    mounted           \* APIKeyContext: the effect of the mount has run

hookVars == <<apiKey, provider, resourceContent, loading, error, calls,
              issued, netCalls, last, lastFailure>>

uiVars == <<activeTab, chatMessage, chatHistory, summary, flashcards, quiz,
            loadedTabs>>

ctxVars == <<storedKey, storedProvider, mounted>>

vars == <<apiKey, provider, resourceContent, loading, error, calls,
          issued, netCalls, last, lastFailure, activeTab, chatMessage,
          chatHistory, summary, flashcards, quiz, loadedTabs, adapter,
          storedKey, storedProvider, mounted>>

\* Largest number of hook operations an arbitrary caller invokes in one
\* behaviour, and the largest number the viewer invokes.
MaxCalls == 3
MaxViewCalls == 3

(***************************************************************************)
(* Values                                                                  *)
(***************************************************************************)

\* A field of a JSON body, or the result of an optional-chaining path.
JAbsent == [t |-> "absent", s |-> <<>>]
JStr(s) == [t |-> "str", s |-> s]
JNum == [t |-> "num", s |-> <<"42">>]

\* JavaScript truthiness of a field: undefined and "" are falsy.
Truthy(f) == \/ f.t = "str" /\ f.s # <<>>
             \/ f.t = "num"

\* JavaScript a || b.
Or(a, b) == IF Truthy(a) THEN a ELSE b

\* interface APIError; `null` is the record of type "null".
MkError(type, message, suggestion) ==
    [type |-> type, message |-> message, suggestion |-> suggestion]

NoError == MkError("null", <<>>, <<>>)

\* A thrown value: one of the adapter's APIError objects (it has a `type`
\* property) or a plain Error such as a TypeError or SyntaxError.
ThrownAPIError(e) == [t |-> "APIError", e |-> e]
ThrownError(message) == [t |-> "Error", e |-> MkError("", message, <<>>)]

\* s.includes(needle) on chunked text: needle occurs contiguously in s.
Includes(s, needle) ==
    \E i \in 1..(Len(s) + 1) :
        /\ i + Len(needle) - 1 <= Len(s)
        /\ \A k \in 1..Len(needle) : s[i + k - 1] = needle[k]

Quota == <<"q", "u", "o", "t", "a">>
Billing == <<"b", "i", "l", "l", "i", "n", "g">>

(***************************************************************************)
(* HTTP responses                                                          *)
(***************************************************************************)

\* The body of a response as response.json() sees it: not JSON at all, the
\* JSON value null, or an object.  Of an object the model keeps the members
\* the code reads: error (absent or an object with a message), message, and
\* the value at each vendor's reply path (choices[0].message.content,
\* content[0].text, candidates[0].content.parts[0].text), JAbsent when any
\* link of the path is missing.
BodyUnparsable ==
    [t |-> "unparsable", error |-> [t |-> "absent", message |-> JAbsent],
     message |-> JAbsent, choices |-> JAbsent, content |-> JAbsent,
     candidates |-> JAbsent]

BodyNull == [BodyUnparsable EXCEPT !.t = "null"]

BodyEmptyObject == [BodyUnparsable EXCEPT !.t = "obj"]

BodyErrorMessage(m) ==
    [BodyEmptyObject EXCEPT !.error = [t |-> "obj", message |-> m]]

BodyMessage(m) == [BodyEmptyObject EXCEPT !.message = m]

\* A success body carrying the reply text at the path of every vendor.
BodyReply(f) ==
    [BodyEmptyObject EXCEPT !.choices = f, !.content = f, !.candidates = f]

\* fetch() rejected: no response at all.
TransportFailure == [t |-> "reject", status |-> 0, body |-> BodyUnparsable]

HttpResponse(status, body) == [t |-> "http", status |-> status, body |-> body]

\* response.ok
Ok(response) == response.status >= 200 /\ response.status <= 299

(***************************************************************************)
(* JSON values returned by JSON.parse                                      *)
(***************************************************************************)

NoOptions == [t |-> "absent", items |-> <<>>]
NoIndex == [t |-> "absent", n |-> 0]

\* An object with the members the artifacts use; a missing member is absent.
JObject(question, answer, options, correct) ==
    [t |-> "obj", question |-> question, answer |-> answer,
     options |-> options, correct |-> correct]

\* { question, answer }
Card(q, a) == JObject(JStr(q), JStr(a), NoOptions, NoIndex)

\* { question, options, correct }
QuizEntry(q, opts, c) ==
    JObject(JStr(q), JAbsent, [t |-> "arr", items |-> opts],
            [t |-> "num", n |-> c])

JArray(items) == [t |-> "arr", items |-> items]

\* An artifact that is a string (a summary) or whatever chat resolved with.
TextValue(f) == [t |-> "text", f |-> f]

(***************************************************************************)
(* Reply text.  Its chunks are the JSON tokens "[", "]", ",", " ", the     *)
(* object literals below (each one token) and prose chunks.                *)
(***************************************************************************)

ObjectLiterals == {"{card1}", "{card2}", "{quiz1}", "{quizBad}", "{junk}"}

\* JSON.parse of one object literal.
ParseObject(tok) ==
    CASE tok = "{card1}" -> Card(<<"Q1">>, <<"A1">>)
      [] tok = "{card2}" -> Card(<<"Q2">>, <<"A2">>)
      [] tok = "{quiz1}" -> QuizEntry(<<"Q1">>, <<<<"A">>, <<"B">>, <<"C">>, <<"D">>>>, 0)
      [] tok = "{quizBad}" -> QuizEntry(<<"Q2">>, <<<<"A">>, <<"B">>>>, 7)
      [] OTHER -> JObject(JAbsent, JAbsent, NoOptions, NoIndex)

\* response.match(/\[[\s\S]*\]/): the leftmost "[" that has a "]" after it,
\* up to the last "]" (greedy); <<>> stands for the null of no match.
FirstOpen(s) == CHOOSE i \in 1..Len(s) :
                    s[i] = "[" /\ \A j \in 1..(i - 1) : s[j] # "["
LastClose(s) == CHOOSE i \in 1..Len(s) :
                    s[i] = "]" /\ \A j \in (i + 1)..Len(s) : s[j] # "]"

HasMatch(s) == \E i, j \in 1..Len(s) : i < j /\ s[i] = "[" /\ s[j] = "]"

JsonMatch(s) == IF HasMatch(s) THEN SubSeq(s, FirstOpen(s), LastClose(s))
                ELSE <<>>

\* JSON.parse over the tokens: value := object literal | "[" "]" |
\* "[" value ("," value)* "]", white space allowed between tokens.  The
\* result is [ok, val, next]; ok = FALSE is the SyntaxError.
ParseFail == [ok |-> FALSE, val |-> JArray(<<>>), next |-> 0]

RECURSIVE SkipWs(_, _)
SkipWs(s, i) == IF i <= Len(s) /\ s[i] = " " THEN SkipWs(s, i + 1) ELSE i

RECURSIVE ParseValue(_, _)
RECURSIVE ParseElements(_, _, _)
ParseValue(s, i) ==
    LET j == SkipWs(s, i) IN
    IF j > Len(s) THEN ParseFail
    ELSE IF s[j] \in ObjectLiterals
         THEN [ok |-> TRUE, val |-> ParseObject(s[j]), next |-> j + 1]
    ELSE IF s[j] = "["
         THEN LET k == SkipWs(s, j + 1) IN
              IF k <= Len(s) /\ s[k] = "]"
              THEN [ok |-> TRUE, val |-> JArray(<<>>), next |-> k + 1]
              ELSE ParseElements(s, j + 1, <<>>)
    ELSE ParseFail

ParseElements(s, i, acc) ==
    LET v == ParseValue(s, i) IN
    IF ~v.ok THEN ParseFail
    ELSE LET k == SkipWs(s, v.next) IN
         IF k > Len(s) THEN ParseFail
         ELSE IF s[k] = ","
              THEN ParseElements(s, k + 1, Append(acc, v.val))
         ELSE IF s[k] = "]"
              THEN [ok |-> TRUE, val |-> JArray(Append(acc, v.val)),
                    next |-> k + 1]
         ELSE ParseFail

JsonParse(s) ==
    LET v == ParseValue(s, 1) IN
    IF v.ok /\ SkipWs(s, v.next) > Len(s) THEN v ELSE ParseFail

(***************************************************************************)
(* services/aiService.ts                                                   *)
(***************************************************************************)

ProviderIds == {"openai", "anthropic", "google"}

\* The names of the three profiles of the providers table.
Profiles == {"OpenAI", "Anthropic", "Google"}

\* getProvider(type).name, where getProvider returns
\* providers[type] || providers.openai.  providers is an object literal, so
\* providers[type] also finds the members inherited from Object.prototype:
\* providers["constructor"] is the function Object, which is truthy and
\* whose name is "Object".
getProvider(type) ==
    CASE type = "openai" -> "OpenAI"
      [] type = "anthropic" -> "Anthropic"
      [] type = "google" -> "Google"
      [] type = "constructor" -> "Object"
      [] OTHER -> "OpenAI"

\* parseError(response, errorData): the APIError returned, or the TypeError
\* thrown when errorData is null or the message has no includes().
parseError(status, errorData) ==
    IF errorData.t = "null"
    THEN [t |-> "throw", e |-> NoError]
    ELSE
    LET nested == IF errorData.error.t = "obj" THEN errorData.error.message
                  ELSE JAbsent
        errorMessage == Or(Or(nested, errorData.message),
                           JStr(<<"Unknown error">>))
    IN
    CASE status = 401 ->
            [t |-> "return",
             e |-> MkError("auth", <<"Invalid API key">>,
                    <<"Please check your API key in Settings and make sure it's correct.">>)]
      [] status = 429 ->
            IF errorMessage.t # "str"
            THEN [t |-> "throw", e |-> NoError]
            ELSE IF Includes(errorMessage.s, Quota)
                    \/ Includes(errorMessage.s, Billing)
            THEN [t |-> "return",
                  e |-> MkError("quota", <<"API quota exceeded">>,
                         <<"Please check your billing details or try a different API provider.">>)]
            ELSE [t |-> "return",
                  e |-> MkError("quota", <<"Rate limit exceeded">>,
                         <<"Please wait a moment and try again.">>)]
      [] status \in {500, 502, 503} ->
            [t |-> "return",
             e |-> MkError("network", <<"Service temporarily unavailable">>,
                    <<"Please try again in a few moments.">>)]
      [] OTHER ->
            [t |-> "return",
             e |-> MkError("unknown", errorMessage.s,
                    <<"Please try again or contact support if the issue persists.">>)]

\* extractResponse with ?? in the place of ||.
extractResponse_nullish(name, data) ==
    LET none == JStr(<<"No response received">>)
        found == CASE name = "OpenAI" -> data.choices
                   [] name = "Anthropic" -> data.content
                   [] name = "Google" -> data.candidates
                   [] OTHER -> JAbsent
    IN  IF found.t = "absent" THEN none ELSE found

\* extractResponse(data)
extractResponse(name, data) ==
    LET none == JStr(<<"No response received">>) IN
    CASE name = "OpenAI" -> Or(data.choices, none)
      [] name = "Anthropic" -> Or(data.content, none)
      [] name = "Google" -> Or(data.candidates, none)
      [] OTHER -> none

\* The catch of response.json() substituting the empty object.
ErrorData_emptyObject(body) ==
    IF body.t = "unparsable" THEN BodyEmptyObject ELSE body

\* await response.json().catch(() => ({ error: { message: ... } }))
ErrorData(body) ==
    IF body.t = "unparsable"
    THEN BodyErrorMessage(JStr(<<"Failed to parse error response">>))
    ELSE body

ConnectionFailed ==
    MkError("network", <<"Connection failed">>,
            <<"Please check your internet connection and try again.">>)

\* chat(messages, resourceContext) from the moment fetch() settles with
\* `response`: what the promise resolves with or rejects with.  The awaits
\* inside (fetch, response.json()) touch no state of the hook, so the body
\* after fetch is one step.  When buildRequestBody throws (the profile is
\* none of the three) fetch is never called, `response` is NoResponse and
\* the catch block turns the Error into the connection failure.
chat(name, response) ==
    IF name \notin Profiles \/ response.t = "reject"
    THEN [t |-> "reject", v |-> JAbsent, thrown |-> ThrownAPIError(ConnectionFailed)]
    ELSE IF ~Ok(response)
    THEN LET apiError == parseError(response.status, ErrorData(response.body))
         IN  IF apiError.t = "return"
             THEN [t |-> "reject", v |-> JAbsent,
                   thrown |-> ThrownAPIError(apiError.e)]
             ELSE [t |-> "reject", v |-> JAbsent,
                   thrown |-> ThrownAPIError(ConnectionFailed)]
    ELSE IF response.body.t \in {"unparsable", "null"}
    THEN [t |-> "reject", v |-> JAbsent, thrown |-> ThrownAPIError(ConnectionFailed)]
    ELSE [t |-> "resolve", v |-> extractResponse(name, response.body),
          thrown |-> ThrownError(<<>>)]

\* createFallbackFlashcards(content)
createFallbackFlashcards ==
    JArray(<<
      Card(<<"What is the main topic of this content?">>,
           <<"The content focuses on learning and understanding key concepts from the uploaded material.">>),
      Card(<<"What are the key learning objectives?">>,
           <<"To extract important information and create study materials for better comprehension.">>),
      Card(<<"How can this content be applied?">>,
           <<"The concepts can be used to enhance understanding and retention of the subject matter.">>) >>)

\* createFallbackQuiz(content)
createFallbackQuiz ==
    JArray(<<
      QuizEntry(<<"What type of content are you studying?">>,
                << <<"Educational material">>, <<"Entertainment">>,
                   <<"News article">>, <<"Technical documentation">> >>, 0),
      QuizEntry(<<"What is the purpose of creating study materials?">>,
                << <<"To pass time">>, <<"To enhance learning">>,
                   <<"To create complexity">>, <<"To avoid studying">> >>, 1) >>)

\* The try block with JSON.parse applied to the whole reply.
ParseArrayOr_wholeText(chatResult, fallback) ==
    IF chatResult.t = "reject" THEN fallback
    ELSE IF chatResult.v.t # "str" THEN fallback
    ELSE LET parsed == JsonParse(chatResult.v.s) IN
         IF parsed.ok THEN parsed.val ELSE fallback

\* The try block answering a reply it cannot parse with the empty array.
ParseArrayOr_emptyOnSyntaxError(chatResult, fallback) ==
    IF chatResult.t = "reject" THEN fallback
    ELSE IF chatResult.v.t # "str" THEN fallback
    ELSE LET jsonMatch == JsonMatch(chatResult.v.s) IN
         IF jsonMatch # <<>>
         THEN LET parsed == JsonParse(jsonMatch) IN
              IF parsed.ok THEN parsed.val ELSE JArray(<<>>)
         ELSE fallback

\* The try block shared by generateFlashcards and generateQuiz: the parsed
\* array, or `fallback` when chat rejected, the reply has no match(), the
\* reply has no bracketed array, or JSON.parse threw.
ParseArrayOr(chatResult, fallback) ==
    IF chatResult.t = "reject" THEN fallback
    ELSE IF chatResult.v.t # "str" THEN fallback
    ELSE LET jsonMatch == JsonMatch(chatResult.v.s) IN
         IF jsonMatch # <<>>
         THEN LET parsed == JsonParse(jsonMatch) IN
              IF parsed.ok THEN parsed.val ELSE fallback
         ELSE fallback

\* AIService.generateSummary(content): chat's own outcome.
AIService_generateSummary(name, response) == chat(name, response)

\* AIService.generateFlashcards(content): always resolves.
AIService_generateFlashcards(name, response) ==
    [t |-> "resolve",
     v |-> ParseArrayOr(chat(name, response), createFallbackFlashcards),
     thrown |-> ThrownError(<<>>)]

\* AIService.generateQuiz(content): always resolves.
AIService_generateQuiz(name, response) ==
    [t |-> "resolve",
     v |-> ParseArrayOr(chat(name, response), createFallbackQuiz),
     thrown |-> ThrownError(<<>>)]

(***************************************************************************)
(* The request of the adapter's chat                                       *)
(***************************************************************************)

\* content.substring(0, n) with one chunk per character
Substring(content, n) ==
    SubSeq(content, 1, IF Len(content) < n THEN Len(content) ELSE n)

\* resourceContext.substring(0, 1000); max_tokens and maxOutputTokens
ContextLimit == 1000
MaxTokens == 1000

\* provider.baseUrl and provider.model; <<>> is the undefined of an object
\* that is no profile.
baseUrl(name) ==
    CASE name = "OpenAI" -> <<"https://api.openai.com/v1/chat/completions">>
      [] name = "Anthropic" -> <<"https://api.anthropic.com/v1/messages">>
      [] name = "Google" -> <<"https://generativelanguage.googleapis.com/v1beta/models/gemini-pro:generateContent">>
      [] OTHER -> <<>>

model(name) ==
    CASE name = "OpenAI" -> <<"gpt-3.5-turbo">>
      [] name = "Anthropic" -> <<"claude-3-sonnet-20240229">>
      [] name = "Google" -> <<"gemini-pro">>
      [] OTHER -> <<>>

\* const systemMessage = resourceContext ? `...` : '...'
systemMessage(resourceContext) ==
    IF resourceContext # <<>>
    THEN <<"You are an AI learning assistant. Help the user understand and learn from this content: ">>
         \o Substring(resourceContext, ContextLimit) \o <<"...">>
    ELSE <<"You are an AI learning assistant. Help the user with their questions.">>

\* The headers object of the fetch: the set of its <<name, value>> members.
Headers(name, key) ==
    { <<"Content-Type", <<"application/json">>>>,
      <<"Authorization", <<"Bearer ">> \o key>> }
    \cup (IF name = "Anthropic"
           THEN { <<"x-api-key", key>>, <<"anthropic-version", <<"2023-06-01">>>> }
           ELSE {})

\* The messages passed on unfiltered.
userMessages_keepAll(messages) == messages

\* messages.filter(m => m.role !== 'system')
userMessages(messages) == SelectSeq(messages, LAMBDA m : m.role # "system")

\* buildRequestBody(messages, systemMessage): the object returned, which
\* JSON.stringify writes member by member, or the Error thrown.
buildRequestBody(name, messages, sysMessage) ==
    LET rest == userMessages(messages) IN
    CASE name = "OpenAI" ->
            [t |-> "return",
             body |-> [model |-> model(name),
                       messages |-> <<[role |-> "system", content |-> sysMessage]>>
                                    \o rest,
                       max_tokens |-> MaxTokens,
                       temperature |-> <<"0.7">>]]
      [] name = "Anthropic" ->
            [t |-> "return",
             body |-> [model |-> model(name),
                       max_tokens |-> MaxTokens,
                       system |-> sysMessage,
                       messages |->
                           [i \in 1..Len(rest) |->
                               [role |-> IF rest[i].role = "assistant"
                                         THEN "assistant" ELSE "user",
                                content |-> rest[i].content]]]]
      [] name = "Google" ->
            [t |-> "return",
             body |-> [contents |->
                           <<[parts |-> <<[text |-> sysMessage]>>]>>
                           \o [i \in 1..Len(rest) |->
                                  [parts |-> <<[text |-> rest[i].content]>>,
                                   role |-> IF rest[i].role = "assistant"
                                            THEN "model" ELSE "user"]],
                       generationConfig |->
                           [maxOutputTokens |-> MaxTokens,
                            temperature |-> <<"0.7">>]]]
      [] OTHER ->
            [t |-> "throw", body |-> ThrownError(<<"Unsupported AI provider">>)]

\* The arguments of chat's fetch().
FetchRequest(name, key, messages, resourceContext) ==
    [url |-> baseUrl(name),
     method |-> "POST",
     headers |-> Headers(name, key),
     body |-> buildRequestBody(name, messages,
                               systemMessage(resourceContext)).body]

(***************************************************************************)
(* hooks/useAI.ts                                                          *)
(***************************************************************************)

\* const aiService = apiKey ? new AIService(apiKey, provider) : null
Configured == apiKey # <<>>

\* The profile name of the hook's AIService.
ProviderName == getProvider(provider)

NotConfiguredError ==
    MkError("auth", <<"AI service not configured">>,
            <<"Please check your API key in Settings.">>)

\* handleError that wraps every error, classified or not.
handleError_wrapsAll(thrown) ==
    MkError("unknown", thrown.e.message,
            <<"Please try again or check your API configuration.">>)

\* handleError(err)
handleError(thrown) ==
    IF thrown.t = "APIError" THEN thrown.e
    ELSE MkError("unknown", thrown.e.message,
                 <<"Please try again or check your API configuration.">>)

\* What an operation hands to its caller: a value returned or an error
\* raised, and the APIError it passes to setError (NoError: no setError).
Returned(val, err) == [how |-> "returned", val |-> val, err |-> err]
Raised(e) == [how |-> "raised", val |-> [t |-> "error", e |-> e], err |-> e]

DemoSummary ==
    TextValue(JStr(<<"This is a demo summary. Upload real content and configure your API key to generate AI-powered summaries of your videos and documents.">>))

UnconfiguredFlashcards ==
    JArray(<<
      Card(<<"Demo Question 1">>,
           <<"Configure your API key to generate real flashcards">>),
      Card(<<"Demo Question 2">>,
           <<"Upload content and set up AI to create personalized study materials">>) >>)

NoContentFlashcards ==
    JArray(<<
      Card(<<"What is EdiFy?">>,
           <<"An AI-powered learning platform for creating study materials">>),
      Card(<<"How does it work?">>,
           <<"Upload content and let AI generate summaries, flashcards, and quizzes">>) >>)

UnconfiguredQuiz ==
    JArray(<<
      QuizEntry(<<"What do you need to generate real quizzes?">>,
                << <<"A valid API key">>, <<"Internet connection">>,
                   <<"Uploaded content">>, <<"All of the above">> >>, 3) >>)

NoContentQuiz ==
    JArray(<<
      QuizEntry(<<"What is the main purpose of EdiFy?">>,
                << <<"Entertainment">>, <<"AI-powered learning">>,
                   <<"File storage">>, <<"Video streaming">> >>, 1) >>)

\* sendChatMessage from `await aiService.chat(...)` on: try/catch/finally.
sendChatMessageOutcome(result) ==
    IF result.t = "resolve"
    THEN Returned(TextValue(result.v), NoError)
    ELSE Raised(handleError(result.thrown))

\* generateSummary whose catch block rethrows, as sendChatMessage's does.
generateSummaryOutcome_rethrows(result) ==
    IF result.t = "resolve"
    THEN Returned(TextValue(result.v), NoError)
    ELSE Raised(handleError(result.thrown))

\* generateSummary whose fallback text leaves the suggestion out.
generateSummaryOutcome_noSuggestion(result) ==
    IF result.t = "resolve"
    THEN Returned(TextValue(result.v), NoError)
    ELSE LET apiError == handleError(result.thrown) IN
         Returned(TextValue(JStr(
                    <<"Unable to generate AI summary due to: ">>
                    \o apiError.message
                    \o <<"\n\nFallback Summary:\nThis content contains educational material that can be used for learning purposes. Key concepts include understanding the main topics, extracting important information, and creating study materials for better comprehension.">>)),
                  apiError)

\* generateSummary from `await aiService.generateSummary(...)` on.
generateSummaryOutcome(result) ==
    IF result.t = "resolve"
    THEN Returned(TextValue(result.v), NoError)
    ELSE LET apiError == handleError(result.thrown) IN
         Returned(TextValue(JStr(
                    <<"Unable to generate AI summary due to: ">>
                    \o apiError.message \o <<". ">> \o apiError.suggestion
                    \o <<"\n\nFallback Summary:\nThis content contains educational material that can be used for learning purposes. Key concepts include understanding the main topics, extracting important information, and creating study materials for better comprehension.">>)),
                  apiError)

\* generateFlashcards from `await aiService.generateFlashcards(...)` on.
generateFlashcardsOutcome(result) ==
    IF result.t = "resolve"
    THEN Returned(result.v, NoError)
    ELSE LET apiError == handleError(result.thrown) IN
         Returned(JArray(<<
                    Card(<<"API Error Occurred">>,
                         apiError.message \o <<". ">> \o apiError.suggestion),
                    Card(<<"Fallback Content">>,
                         <<"These are demo flashcards. Fix the API issue to generate real content.">>) >>),
                  apiError)

\* generateQuiz from `await aiService.generateQuiz(...)` on.
generateQuizOutcome(result) ==
    IF result.t = "resolve"
    THEN Returned(result.v, NoError)
    ELSE LET apiError == handleError(result.thrown) IN
         Returned(JArray(<<
                    QuizEntry(<<"API Error: ">> \o apiError.message,
                              << apiError.suggestion, <<"Try again later">>,
                                 <<"Check your API configuration">>,
                                 <<"All of the above">> >>, 3) >>),
                  apiError)

\* The record kept of a completed operation.  `called` says whether it
\* issued a provider call; `response` is what that call's fetch settled
\* with, `failed` and `callErr` what the adapter's chat made of it.
NoResponse == [t |-> "none", status |-> 0, body |-> BodyUnparsable]

Done(id, op, outcome, called, response) ==
    LET result == chat(ProviderName, response)
        failed == called /\ result.t = "reject"
    IN  [id |-> id, op |-> op, how |-> outcome.how, val |-> outcome.val,
         called |-> called, response |-> response, failed |-> failed,
         callErr |-> IF failed THEN result.thrown.e ELSE NoError]

NoneDone == Done(0, "none", Returned(TextValue(JAbsent), NoError), FALSE,
                 NoResponse)

\* An operation that returns or throws before its first await.
CompleteAtOnce(op, outcome) ==
    /\ last' = Done(issued + 1, op, outcome, FALSE, NoResponse)
    /\ UNCHANGED <<loading, error, calls, netCalls, lastFailure>>

\* Suspend without setError(null).
Suspend_keepsError(op, messages, context) ==
    LET requests == IF ProviderName \in Profiles
                    THEN <<FetchRequest(ProviderName, apiKey, messages, context)>>
                    ELSE <<>>
    IN
    /\ loading' = TRUE
    /\ error' = error
    /\ netCalls' = netCalls + Len(requests)
    /\ calls' = calls \cup {[id |-> issued + 1, op |-> op,
                             messages |-> messages, context |-> context,
                             requests |-> requests]}
    /\ lastFailure' = [lastFailure EXCEPT !.startedSince = TRUE]
    /\ UNCHANGED last

\* setLoading(true); setError(null); then the adapter's chat runs up to its
\* fetch(), which issues the request, and the operation suspends.  When
\* buildRequestBody throws there is no fetch() and the operation suspends
\* on a promise that is already rejected.
Suspend(op, messages, context) ==
    LET requests == IF ProviderName \in Profiles
                    THEN <<FetchRequest(ProviderName, apiKey, messages, context)>>
                    ELSE <<>>
    IN
    /\ loading' = TRUE
    /\ error' = NoError
    /\ netCalls' = netCalls + Len(requests)
    /\ calls' = calls \cup {[id |-> issued + 1, op |-> op,
                             messages |-> messages, context |-> context,
                             requests |-> requests]}
    /\ lastFailure' = [lastFailure EXCEPT !.startedSince = TRUE]
    /\ UNCHANGED last

\* ChatMessages of a caller's history that already holds the new message:
\* the message is sent twice.
ChatMessages_messageTwice(message, history) ==
    [i \in 1..Len(history) |->
        [role |-> IF history[i].role = "ai" THEN "assistant" ELSE "user",
         content |-> history[i].message]]
    \o <<[role |-> "user", content |-> message],
         [role |-> "user", content |-> message]>>

\* chatHistory.map(...) followed by messages.push({role: 'user', ...})
ChatMessages(message, history) ==
    [i \in 1..Len(history) |->
        [role |-> IF history[i].role = "ai" THEN "assistant" ELSE "user",
         content |-> history[i].message]]
    \o <<[role |-> "user", content |-> message]>>

PromptLimit == 3000

SummaryPrompt(content) ==
    <<[role |-> "user",
       content |-> <<"Please provide a comprehensive summary of this content, highlighting the key points, main themes, and important takeaways:\n\n">>
                   \o Substring(content, PromptLimit)]>>

FlashcardsPrompt(content) ==
    <<[role |-> "user",
       content |-> <<"Create 6 flashcards from this content. Return them as a JSON array with 'question' and 'answer' fields. Format: [{\"question\": \"...\", \"answer\": \"...\"}]\n\n">>
                   \o Substring(content, PromptLimit)]>>

QuizPrompt(content) ==
    <<[role |-> "user",
       content |-> <<"Create a 4-question multiple choice quiz from this content. Return as JSON array with 'question', 'options' (array of 4 choices), and 'correct' (index of correct answer). Format: [{\"question\": \"...\", \"options\": [\"A\", \"B\", \"C\", \"D\"], \"correct\": 0}]\n\n">>
                   \o Substring(content, PromptLimit)]>>

\* sendChatMessage with setLoading(true) ahead of the aiService guard.
sendChatMessage_loadingFirst(message, history) ==
    /\ issued' = issued + 1
    /\ IF ~Configured
       THEN /\ last' = Done(issued + 1, "chat", Raised(NotConfiguredError),
                            FALSE, NoResponse)
            /\ loading' = TRUE
            /\ UNCHANGED <<error, calls, netCalls, lastFailure>>
       ELSE Suspend("chat", ChatMessages(message, history), resourceContent)
    /\ UNCHANGED <<apiKey, provider, resourceContent>>

\* sendChatMessage(message, chatHistory) up to its await.
sendChatMessage(message, history) ==
    /\ issued' = issued + 1
    /\ IF ~Configured
       THEN CompleteAtOnce("chat", Raised(NotConfiguredError))
       ELSE Suspend("chat", ChatMessages(message, history), resourceContent)
    /\ UNCHANGED <<apiKey, provider, resourceContent>>

\* generateSummary with setLoading/setError ahead of the empty-content
\* return: the demo summary clears the last error.
generateSummary_resetsOnDemo ==
    /\ issued' = issued + 1
    /\ IF ~Configured
       THEN CompleteAtOnce("summary", Raised(NotConfiguredError))
       ELSE IF resourceContent = <<>>
       THEN /\ last' = Done(issued + 1, "summary",
                            Returned(DemoSummary, NoError), FALSE, NoResponse)
            /\ error' = NoError
            /\ UNCHANGED <<loading, calls, netCalls, lastFailure>>
       ELSE Suspend("summary", SummaryPrompt(resourceContent), <<>>)
    /\ UNCHANGED <<apiKey, provider, resourceContent>>

\* generateSummary() up to its await.
generateSummary ==
    /\ issued' = issued + 1
    /\ IF ~Configured
       THEN CompleteAtOnce("summary", Raised(NotConfiguredError))
       ELSE IF resourceContent = <<>>
       THEN CompleteAtOnce("summary", Returned(DemoSummary, NoError))
       ELSE Suspend("summary", SummaryPrompt(resourceContent), <<>>)
    /\ UNCHANGED <<apiKey, provider, resourceContent>>

\* generateFlashcards without the aiService guard.
generateFlashcards_noGuard ==
    /\ issued' = issued + 1
    /\ IF resourceContent = <<>>
       THEN CompleteAtOnce("flashcards", Returned(NoContentFlashcards, NoError))
       ELSE Suspend("flashcards", FlashcardsPrompt(resourceContent), <<>>)
    /\ UNCHANGED <<apiKey, provider, resourceContent>>

\* generateFlashcards() up to its await.
generateFlashcards ==
    /\ issued' = issued + 1
    /\ IF ~Configured
       THEN CompleteAtOnce("flashcards", Returned(UnconfiguredFlashcards, NoError))
       ELSE IF resourceContent = <<>>
       THEN CompleteAtOnce("flashcards", Returned(NoContentFlashcards, NoError))
       ELSE Suspend("flashcards", FlashcardsPrompt(resourceContent), <<>>)
    /\ UNCHANGED <<apiKey, provider, resourceContent>>

\* generateQuiz() up to its await.
generateQuiz ==
    /\ issued' = issued + 1
    /\ IF ~Configured
       THEN CompleteAtOnce("quiz", Returned(UnconfiguredQuiz, NoError))
       ELSE IF resourceContent = <<>>
       THEN CompleteAtOnce("quiz", Returned(NoContentQuiz, NoError))
       ELSE Suspend("quiz", QuizPrompt(resourceContent), <<>>)
    /\ UNCHANGED <<apiKey, provider, resourceContent>>

\* Resume without the finally block.
Resume_noFinally(c, response, outcome) ==
    /\ error' = IF outcome.err # NoError THEN outcome.err ELSE error
    /\ loading' = loading
    /\ calls' = calls \ {c}
    /\ last' = Done(c.id, c.op, outcome, TRUE, response)
    /\ lastFailure' =
         IF c.op \in {"chat", "summary"}
            /\ chat(ProviderName, response).t = "reject"
         THEN [e |-> chat(ProviderName, response).thrown.e,
               startedSince |-> FALSE]
         ELSE lastFailure
    /\ UNCHANGED <<apiKey, provider, resourceContent, issued, netCalls>>

\* Resume that also clears the error when the call succeeded.
Resume_clearsOnSuccess(c, response, outcome) ==
    /\ error' = outcome.err
    /\ loading' = FALSE
    /\ calls' = calls \ {c}
    /\ last' = Done(c.id, c.op, outcome, TRUE, response)
    /\ lastFailure' =
         IF c.op \in {"chat", "summary"}
            /\ chat(ProviderName, response).t = "reject"
         THEN [e |-> chat(ProviderName, response).thrown.e,
               startedSince |-> FALSE]
         ELSE lastFailure
    /\ UNCHANGED <<apiKey, provider, resourceContent, issued, netCalls>>

\* Resume repeating the request once when the call failed.
Resume_retries(c, response, outcome) ==
    /\ error' = IF outcome.err # NoError THEN outcome.err ELSE error
    /\ loading' = FALSE
    /\ calls' = calls \ {c}
    /\ last' = Done(c.id, c.op, outcome, TRUE, response)
    /\ lastFailure' =
         IF c.op \in {"chat", "summary"}
            /\ chat(ProviderName, response).t = "reject"
         THEN [e |-> chat(ProviderName, response).thrown.e,
               startedSince |-> FALSE]
         ELSE lastFailure
    /\ netCalls' = IF chat(ProviderName, response).t = "reject"
                   THEN netCalls + 1 ELSE netCalls
    /\ UNCHANGED <<apiKey, provider, resourceContent, issued>>

\* Resume whose setLoading(false) runs on the success path only.
Resume_busyOnFailure(c, response, outcome) ==
    /\ error' = IF outcome.err # NoError THEN outcome.err ELSE error
    /\ loading' = IF outcome.err # NoError THEN loading ELSE FALSE
    /\ calls' = calls \ {c}
    /\ last' = Done(c.id, c.op, outcome, TRUE, response)
    /\ lastFailure' =
         IF c.op \in {"chat", "summary"}
            /\ chat(ProviderName, response).t = "reject"
         THEN [e |-> chat(ProviderName, response).thrown.e,
               startedSince |-> FALSE]
         ELSE lastFailure
    /\ UNCHANGED <<apiKey, provider, resourceContent, issued, netCalls>>

\* The rest of an operation once its provider call has settled: setError in
\* the catch block, setLoading(false) in the finally block.
Resume(c, response, outcome) ==
    /\ error' = IF outcome.err # NoError THEN outcome.err ELSE error
    /\ loading' = FALSE
    /\ calls' = calls \ {c}
    /\ last' = Done(c.id, c.op, outcome, TRUE, response)
    /\ lastFailure' =
         IF c.op \in {"chat", "summary"}
            /\ chat(ProviderName, response).t = "reject"
         THEN [e |-> chat(ProviderName, response).thrown.e,
               startedSince |-> FALSE]
         ELSE lastFailure
    /\ UNCHANGED <<apiKey, provider, resourceContent, issued, netCalls>>

sendChatMessageResume(c, response) ==
    /\ c \in calls /\ c.op = "chat"
    /\ Resume(c, response, sendChatMessageOutcome(chat(ProviderName, response)))

generateSummaryResume(c, response) ==
    /\ c \in calls /\ c.op = "summary"
    /\ Resume(c, response,
              generateSummaryOutcome(AIService_generateSummary(ProviderName, response)))

generateFlashcardsResume(c, response) ==
    /\ c \in calls /\ c.op = "flashcards"
    /\ Resume(c, response,
              generateFlashcardsOutcome(AIService_generateFlashcards(ProviderName, response)))

generateQuizResume(c, response) ==
    /\ c \in calls /\ c.op = "quiz"
    /\ Resume(c, response,
              generateQuizOutcome(AIService_generateQuiz(ProviderName, response)))

(***************************************************************************)
(* contexts/APIKeyContext.tsx                                              *)
(***************************************************************************)

\* localStorage.getItem: null when the item is absent, else its string.
NoItem == [t |-> "null"]
Item(v) == [t |-> "item", v |-> v]

\* Boolean(apiKey), and the truthiness `if (key)`, `if (savedKey)` test
BooleanOf(key) == key # <<>>

\* APIKeyContext's isConfigured
APIKey_isConfigured == BooleanOf(apiKey)

\* The useEffect of the mount: the saved values replace the initial ones
\* where an item is present and its string is not empty.
LoadSaved ==
    /\ ~mounted
    /\ mounted' = TRUE
    /\ apiKey' = IF storedKey # NoItem /\ BooleanOf(storedKey.v)
                 THEN storedKey.v ELSE apiKey
    /\ provider' = IF storedProvider # NoItem /\ storedProvider.v # ""
                   THEN storedProvider.v ELSE provider
    /\ UNCHANGED <<storedKey, storedProvider>>

\* setApiKey that stores the key whatever it is.
setApiKey_alwaysStores(key) ==
    /\ apiKey' = key
    /\ storedKey' = Item(key)
    /\ UNCHANGED <<provider, storedProvider, mounted>>

\* setApiKey(key)
setApiKey(key) ==
    /\ apiKey' = key
    /\ storedKey' = IF BooleanOf(key) THEN Item(key) ELSE NoItem
    /\ UNCHANGED <<provider, storedProvider, mounted>>

\* setProvider(newProvider)
setProvider(newProvider) ==
    /\ provider' = newProvider
    /\ storedProvider' = Item(newProvider)
    /\ UNCHANGED <<apiKey, storedKey, mounted>>

\* The context once mounted, for the runs of the hook and the viewer: the
\* saved values are loaded, and localStorage holds what setApiKey and
\* setProvider have left there for the key and provider in memory.
InitContextLoaded ==
    /\ mounted = TRUE
    /\ storedKey = IF BooleanOf(apiKey) THEN Item(apiKey) ELSE NoItem
    /\ storedProvider = Item(provider)

\* No AIService method has been called directly.  Of a call the record
\* keeps the method, its arguments, the fetch() requests it has issued, the
\* response its fetch settled with, what parseError made of a non-2xx
\* response and what the method's promise settled with.
NoAdapterCall ==
    [state |-> "idle", op |-> "none", messages |-> <<>>,
     resourceContext |-> <<>>, requests |-> <<>>, response |-> NoResponse,
     classified |-> [t |-> "none", e |-> NoError],
     result |-> [t |-> "none", v |-> JAbsent, thrown |-> ThrownError(<<>>)]]

(***************************************************************************)
(* The orchestrator under an arbitrary caller                              *)
(***************************************************************************)

QuotaMessage ==
    <<"You exceeded your current ">> \o Quota \o <<", please check ">>
    \o Billing

\* What a provider call can settle with: one response of each kind the
\* adapter and the operations tell apart.
Responses ==
    { TransportFailure,
      HttpResponse(429, BodyErrorMessage(JStr(QuotaMessage))),
      HttpResponse(500, BodyUnparsable),
      HttpResponse(404, BodyMessage(JStr(<<"model not found">>))),
      HttpResponse(200, BodyUnparsable),
      HttpResponse(200, BodyReply(JStr(<<"A plain answer">>))),
      HttpResponse(200, BodyReply(JStr(<<"Intro text ", "[", "{card1}", "]", " trailing">>))),
      HttpResponse(200, BodyReply(JStr(<<"[", "{card1}", "]", " or ", "[", "{card2}", "]">>))) }

\* What the call of operation c settles with: a response to its request,
\* or nothing when chat rejected without issuing one.
Settlements(c) == IF c.requests = <<>> THEN {NoResponse} ELSE Responses

Greeting ==
    [role |-> "ai",
     message |-> <<"Hello! I've analyzed your content and I'm ready to help you learn. What would you like to know?">>]

\* The messages and histories a caller passes to sendChatMessage.
Messages == { <<"hi">> }
Histories == { <<>>, <<Greeting, [role |-> "user", message |-> <<"hello">>]>> }

ApiKeys == { <<>>, <<"sk-test">> }

\* The provider identifiers of the orchestrator's runs: a known one, one
\* outside the table, and one outside the table that names a member every
\* object inherits.
HookProviders == { "anthropic", "mistral", "constructor" }
Contents == { <<>>, <<"l", "e", "s", "s", "o", "n">> }

InitHookState ==
    /\ loading = FALSE
    /\ error = NoError
    /\ calls = {}
    /\ issued = 0
    /\ netCalls = 0
    /\ last = NoneDone
    /\ lastFailure = [e |-> NoError, startedSince |-> FALSE]

InitViewState ==
    /\ activeTab = "chat"
    /\ chatMessage = <<>>
    /\ chatHistory = <<Greeting>>
    /\ summary = TextValue(JStr(<<>>))
    /\ flashcards = JArray(<<>>)
    /\ quiz = JArray(<<>>)
    /\ loadedTabs = {}

Init ==
    /\ apiKey \in ApiKeys
    /\ provider \in HookProviders
    /\ resourceContent \in Contents
    /\ InitHookState
    /\ InitViewState
    /\ adapter = NoAdapterCall
    /\ InitContextLoaded

CallSendChatMessage ==
    /\ issued < MaxCalls
    /\ \E message \in Messages, history \in Histories :
          sendChatMessage(message, history) /\ UNCHANGED <<uiVars, adapter, ctxVars>>

CallGenerateSummary ==
    issued < MaxCalls /\ generateSummary /\ UNCHANGED <<uiVars, adapter, ctxVars>>

CallGenerateFlashcards ==
    issued < MaxCalls /\ generateFlashcards /\ UNCHANGED <<uiVars, adapter, ctxVars>>

CallGenerateQuiz ==
    issued < MaxCalls /\ generateQuiz /\ UNCHANGED <<uiVars, adapter, ctxVars>>

ChatSettles ==
    \E c \in calls : \E response \in Settlements(c) :
        sendChatMessageResume(c, response) /\ UNCHANGED <<uiVars, adapter, ctxVars>>

SummarySettles ==
    \E c \in calls : \E response \in Settlements(c) :
        generateSummaryResume(c, response) /\ UNCHANGED <<uiVars, adapter, ctxVars>>

FlashcardsSettles ==
    \E c \in calls : \E response \in Settlements(c) :
        generateFlashcardsResume(c, response) /\ UNCHANGED <<uiVars, adapter, ctxVars>>

QuizSettles ==
    \E c \in calls : \E response \in Settlements(c) :
        generateQuizResume(c, response) /\ UNCHANGED <<uiVars, adapter, ctxVars>>

Next ==
    \/ CallSendChatMessage
    \/ CallGenerateSummary
    \/ CallGenerateFlashcards
    \/ CallGenerateQuiz
    \/ ChatSettles
    \/ SummarySettles
    \/ FlashcardsSettles
    \/ QuizSettles

Spec == Init /\ [][Next]_vars

(***************************************************************************)
(* Properties of the orchestrator (Spec)                                   *)
(***************************************************************************)

Generations == {"summary", "flashcards", "quiz"}

\* An operation completes in this step.
Completes == last'.id # last.id

\* C1: on a configured orchestrator, whatever the provider call settles
\* with, summarize, generateFlashcards and generateQuiz complete by returning
\* an artifact (a text or an array); none of them raises.
C1_GenerationsReturn ==
    (Configured /\ last.op \in Generations)
        => (last.how = "returned" /\ last.val.t \in {"text", "arr"})

\* A generation whose provider call failed has returned.
C1_Witness ==
    /\ Configured
    /\ last.op = "summary"
    /\ last.failed
    /\ last.how = "returned"

\* C2: without an API key no operation issues a network request.
C2_NoRequestUnconfigured == ~Configured => netCalls = 0

\* An unconfigured orchestrator on which two operations have been invoked.
C2_Witness == ~Configured /\ issued >= 2 /\ netCalls = 0

\* C3: without an API key summarize, generateFlashcards and generateQuiz
\* each return their fixed demo content and do not raise, the same value on
\* every call.
C3_UnconfiguredDemoContent ==
    (~Configured /\ last.op \in Generations)
        => /\ last.how = "returned"
           /\ last.val = CASE last.op = "summary" -> DemoSummary
                           [] last.op = "flashcards" -> UnconfiguredFlashcards
                           [] OTHER -> UnconfiguredQuiz

\* C4: without an API key chat raises the auth error "AI service not
\* configured" and changes neither the busy flag, the last error, the calls
\* in flight nor the number of requests.
C4_UnconfiguredChatRaises ==
    [][(~Configured /\ Completes /\ last'.op = "chat")
          => /\ last'.how = "raised"
             /\ last'.val.e.type = "auth"
             /\ last'.val.e.message = <<"AI service not configured">>
             /\ UNCHANGED <<loading, error, calls, netCalls>>]_vars

\* An unconfigured chat has raised.
C4_Witness == ~Configured /\ last.op = "chat" /\ last.how = "raised"

\* C5: when the provider call of a configured chat fails, chat raises the
\* adapter's classified error unchanged; a 429 whose message mentions quota
\* or billing is raised as kind quota with the billing suggestion.
C5_ChatRaisesAdapterError ==
    (last.op = "chat" /\ last.failed)
        => /\ last.how = "raised"
           /\ last.val.e = last.callErr
           /\ (last.response.status = 429
               /\ last.response.body = BodyErrorMessage(JStr(QuotaMessage)))
                 => /\ last.val.e.type = "quota"
                    /\ last.val.e.suggestion =
                         <<"Please check your billing details or try a different API provider.">>

\* A chat has failed on the 429 quota response.
C5_Witness ==
    /\ last.op = "chat"
    /\ last.failed
    /\ last.response.status = 429
    /\ last.response.body = BodyErrorMessage(JStr(QuotaMessage))

\* C6: when generateFlashcards or generateQuiz completes, the last error is
\* the classified error of its provider call if that call failed, and is
\* left as it was if the call succeeded (whether or not its text parsed).
C6_GenerationRecordsCallFailure ==
    [][(Completes /\ last'.called /\ last'.op \in {"flashcards", "quiz"})
          => /\ last'.failed => error' = last'.callErr
             /\ ~last'.failed => error' = error]_vars

\* C7 as stated: every invocation of an operation resets the last error
\* when it starts, and the last error becomes non-empty only by an operation
\* whose own provider call failed, to that call's classified error.
C7_EveryInvocationResets ==
    [][/\ issued' = issued + 1 => error' = NoError
       /\ (error' # error /\ error' # NoError)
            => (Completes /\ last'.failed /\ error' = last'.callErr)]_vars

\* C7 amended: every invocation that issues a provider call resets the last
\* error when it starts, and the last error becomes non-empty only by an
\* operation whose own provider call failed, to that call's classified
\* error.
C7_CallingInvocationResets ==
    [][/\ netCalls' = netCalls + 1 => error' = NoError
       /\ (error' # error /\ error' # NoError)
            => (Completes /\ last'.failed /\ error' = last'.callErr)]_vars

\* A failure was recorded and a later operation's start has cleared it.
C7_Witness ==
    /\ lastFailure.e # NoError
    /\ lastFailure.startedSince
    /\ error = NoError

\* C8: the busy flag is true only while a provider call is outstanding.
C8_LoadingOnlyInFlight == loading => Cardinality(calls) >= 1

\* The busy flag is set while two operations overlap.
C8_Witness == loading /\ Cardinality(calls) >= 2

\* C9 as stated, for the operations whose failures are recorded (chat and
\* summarize): when a call completes, the last error is that call's
\* classified error if it failed and empty if it succeeded.
C9_ErrorOfLastCompleted ==
    [][(Completes /\ last'.called /\ last'.op \in {"chat", "summary"})
          => error' = last'.callErr]_vars

\* C9 amended: the last error is the classified error of the most recently
\* completed chat or summarize call whose provider call failed, unless an
\* operation that issues a provider call has started since; then, and when
\* no such call has failed, it is empty.  A call that succeeds leaves it.
C9_ErrorOfLastRecordedFailure ==
    error = IF lastFailure.startedSince THEN NoError ELSE lastFailure.e

\* The most recently completed call succeeded and the last error still
\* holds the error of a call that completed before it.
C9_Witness ==
    /\ last.called
    /\ last.op \in {"chat", "summary"}
    /\ ~last.failed
    /\ error # NoError
    /\ error = lastFailure.e

(***************************************************************************)
(* components/ResourceViewer.tsx                                           *)
(***************************************************************************)

\* s.trim() with one chunk per character
RECURSIVE TrimStart(_)
TrimStart(s) == IF s # <<>> /\ Head(s) = " " THEN TrimStart(Tail(s)) ELSE s

RECURSIVE TrimEnd(_)
TrimEnd(s) == IF s # <<>> /\ s[Len(s)] = " "
              THEN TrimEnd(SubSeq(s, 1, Len(s) - 1)) ELSE s

Trim(s) == TrimEnd(TrimStart(s))

\* isConfigured as useAI returns it: Boolean(aiService)
isConfigured == Configured

\* const resourceContent = `Content from ${resource.name}. This is ...`
ViewerContent ==
    <<"Content from ", "notes.pdf",
      ". This is sample content that would be extracted from the uploaded video or document. In a production app, this would involve video transcription, document parsing, etc.">>

\* The artifact of the active tab is still empty: !summary,
\* flashcards.length === 0, quiz.length === 0.
ArtifactEmpty(tab) ==
    CASE tab = "summary" -> ~Truthy(summary.f)
      [] tab = "flashcards" -> Len(flashcards.items) = 0
      [] tab = "quiz" -> Len(quiz.items) = 0
      [] OTHER -> FALSE

\* The effect without its `if (loadedTabs.has(activeTab)) return`.
loadTabContent_noGuard(tab, loaded, empty) ==
    /\ loadedTabs' = loaded \cup {tab}
    /\ CASE tab = "summary" /\ empty -> generateSummary
         [] tab = "flashcards" /\ empty -> generateFlashcards
         [] tab = "quiz" /\ empty -> generateQuiz
         [] OTHER -> UNCHANGED hookVars

\* The useEffect that follows a render: loadTabContent() when the active
\* tab is not in loadedTabs.  `loaded` and `empty` are loadedTabs and the
\* emptiness of the tab's artifact as that render sees them.
loadTabContent(tab, loaded, empty) ==
    IF tab \in loaded
    THEN /\ loadedTabs' = loaded
         /\ UNCHANGED hookVars
    ELSE /\ loadedTabs' = loaded \cup {tab}
         /\ CASE tab = "summary" /\ empty -> generateSummary
              [] tab = "flashcards" /\ empty -> generateFlashcards
              [] tab = "quiz" /\ empty -> generateQuiz
              [] OTHER -> UNCHANGED hookVars

\* onChange of the chat input, which is disabled while loading.
setChatMessage(text) ==
    /\ activeTab = "chat"
    /\ ~loading /\ isConfigured
    /\ chatMessage' = text
    /\ UNCHANGED <<activeTab, chatHistory, summary, flashcards, quiz,
                   loadedTabs>>
    /\ UNCHANGED hookVars

\* handleSendMessage, up to the await, on a submit the form allows: the
\* submit button is disabled while loading or when the trimmed input is
\* empty.
handleSendMessage ==
    /\ activeTab = "chat"
    /\ ~loading
    /\ Trim(chatMessage) # <<>> /\ isConfigured
    /\ chatMessage' = <<>>
    /\ chatHistory' = Append(chatHistory,
                             [role |-> "user", message |-> Trim(chatMessage)])
    /\ sendChatMessage(Trim(chatMessage), chatHistory)
    /\ UNCHANGED <<activeTab, summary, flashcards, quiz, loadedTabs>>

\* A click on a tab button, the render and the effect after it.
setActiveTab(tab) ==
    /\ tab # activeTab
    /\ activeTab' = tab
    /\ loadTabContent(tab, loadedTabs, ArtifactEmpty(tab))
    /\ UNCHANGED <<chatMessage, chatHistory, summary, flashcards, quiz>>

\* The error card with its Retry button is what the active tab renders.
RetryShown ==
    /\ activeTab \in {"summary", "flashcards", "quiz"}
    /\ ~(loading /\ ArtifactEmpty(activeTab))
    /\ error # NoError /\ ArtifactEmpty(activeTab)

\* retryContent that resets loadedTabs and every artifact.
retryContent_resetsAll ==
    /\ RetryShown
    /\ summary' = TextValue(JStr(<<>>))
    /\ flashcards' = JArray(<<>>)
    /\ quiz' = JArray(<<>>)
    /\ loadTabContent(activeTab, {}, TRUE)
    /\ UNCHANGED <<activeTab, chatMessage, chatHistory>>

\* retryContent, the render and the effect after it.
retryContent ==
    /\ RetryShown
    /\ summary' = IF activeTab = "summary" THEN TextValue(JStr(<<>>))
                  ELSE summary
    /\ flashcards' = IF activeTab = "flashcards" THEN JArray(<<>>)
                     ELSE flashcards
    /\ quiz' = IF activeTab = "quiz" THEN JArray(<<>>) ELSE quiz
    /\ loadTabContent(activeTab, loadedTabs \ {activeTab}, TRUE)
    /\ UNCHANGED <<activeTab, chatMessage, chatHistory>>

\* handleSendMessage after its await, appending the reply to the history
\* the send itself had built (newHistory) instead of to the latest one.
handleSendMessageResume_staleHistory(c, response) ==
    /\ sendChatMessageResume(c, response)
    /\ chatHistory' =
         Append(SubSeq(chatHistory, 1, Len(c.messages)),
                [role |-> "ai",
                 message |-> IF last'.how = "returned" THEN last'.val.f.s
                             ELSE last'.val.e.message \o <<". ">>
                                  \o last'.val.e.suggestion])
    /\ UNCHANGED <<activeTab, chatMessage, summary, flashcards, quiz,
                   loadedTabs>>

\* handleSendMessage after `await sendChatMessage(...)`.
handleSendMessageResume(c, response) ==
    /\ sendChatMessageResume(c, response)
    /\ chatHistory' =
         Append(chatHistory,
                [role |-> "ai",
                 message |-> IF last'.how = "returned" THEN last'.val.f.s
                             ELSE last'.val.e.message \o <<". ">>
                                  \o last'.val.e.suggestion])
    /\ UNCHANGED <<activeTab, chatMessage, summary, flashcards, quiz,
                   loadedTabs>>

\* loadTabContent after `await generateSummary()`.
loadSummaryResume(c, response) ==
    /\ generateSummaryResume(c, response)
    /\ summary' = last'.val
    /\ UNCHANGED <<activeTab, chatMessage, chatHistory, flashcards, quiz,
                   loadedTabs>>

\* loadTabContent after `await generateFlashcards()`.
loadFlashcardsResume(c, response) ==
    /\ generateFlashcardsResume(c, response)
    /\ flashcards' =
         JArray([i \in 1..Len(last'.val.items) |->
                    [card |-> last'.val.items[i], revealed |-> FALSE]])
    /\ UNCHANGED <<activeTab, chatMessage, chatHistory, summary, quiz,
                   loadedTabs>>

\* loadTabContent after `await generateQuiz()`.
loadQuizResume(c, response) ==
    /\ generateQuizResume(c, response)
    /\ quiz' =
         JArray([i \in 1..Len(last'.val.items) |->
                    [entry |-> last'.val.items[i], selected |-> NoIndex]])
    /\ UNCHANGED <<activeTab, chatMessage, chatHistory, summary, flashcards,
                   loadedTabs>>

(***************************************************************************)
(* The viewer driving the orchestrator                                     *)
(***************************************************************************)

Tabs == {"chat", "summary", "flashcards", "quiz"}

\* What the user types into the chat input.
TypedTexts == { <<" ">>, <<" ", "h", "i", " ">> }

\* What a provider call of the viewer's runs can settle with.
ViewResponses ==
    { TransportFailure,
      HttpResponse(429, BodyErrorMessage(JStr(QuotaMessage))),
      HttpResponse(200, BodyReply(JStr(<<"A plain answer">>))),
      HttpResponse(200, BodyReply(JStr(<<"Intro text ", "[", "{card1}", "]", " trailing">>))),
      HttpResponse(200, BodyReply(JStr(<<"[", " ", "]">>))) }

\* The viewer as Workspace mounts it: configured, and the first effect has
\* put the chat tab into loadedTabs.
InitView ==
    /\ apiKey = <<"sk-test">>
    /\ provider = "anthropic"
    /\ resourceContent = ViewerContent
    /\ InitHookState
    /\ activeTab = "chat"
    /\ chatMessage = <<>>
    /\ chatHistory = <<Greeting>>
    /\ summary = TextValue(JStr(<<>>))
    /\ flashcards = JArray(<<>>)
    /\ quiz = JArray(<<>>)
    /\ loadedTabs = {"chat"}
    /\ adapter = NoAdapterCall
    /\ InitContextLoaded

TypeMessage ==
    /\ \E text \in TypedTexts : setChatMessage(text)
    /\ UNCHANGED <<adapter, ctxVars>>

SubmitMessage ==
    issued < MaxViewCalls /\ handleSendMessage /\ UNCHANGED <<adapter, ctxVars>>

SwitchTab ==
    /\ issued < MaxViewCalls
    /\ \E tab \in Tabs : setActiveTab(tab)
    /\ UNCHANGED <<adapter, ctxVars>>

Retry == issued < MaxViewCalls /\ retryContent /\ UNCHANGED <<adapter, ctxVars>>

ChatReplies ==
    \E c \in calls, response \in ViewResponses :
        handleSendMessageResume(c, response) /\ UNCHANGED <<adapter, ctxVars>>

SummaryArrives ==
    \E c \in calls, response \in ViewResponses :
        loadSummaryResume(c, response) /\ UNCHANGED <<adapter, ctxVars>>

FlashcardsArrive ==
    \E c \in calls, response \in ViewResponses :
        loadFlashcardsResume(c, response) /\ UNCHANGED <<adapter, ctxVars>>

QuizArrives ==
    \E c \in calls, response \in ViewResponses :
        loadQuizResume(c, response) /\ UNCHANGED <<adapter, ctxVars>>

NextView ==
    \/ TypeMessage
    \/ SubmitMessage
    \/ SwitchTab
    \/ Retry
    \/ ChatReplies
    \/ SummaryArrives
    \/ FlashcardsArrive
    \/ QuizArrives

SpecView == InitView /\ [][NextView]_vars

(***************************************************************************)
(* Properties of the viewer (SpecView)                                     *)
(***************************************************************************)

\* C10: the viewer never starts an operation while another is in flight:
\* at most one provider call of a viewer is outstanding at any time.
C10_OneCallInFlight == Cardinality(calls) <= 1

(***************************************************************************)
(* The adapter called directly                                             *)
(***************************************************************************)

\* What the promise of method `op` settles with once fetch has settled.
MethodResult(op, name, response) ==
    CASE op = "chat" -> chat(name, response)
      [] op = "generateSummary" -> AIService_generateSummary(name, response)
      [] op = "generateFlashcards" -> AIService_generateFlashcards(name, response)
      [] op = "generateQuiz" -> AIService_generateQuiz(name, response)

\* A method up to the fetch() of its chat: the request is built and sent,
\* or buildRequestBody throws and the method settles without a request.
AdapterCall(op, messages, resourceContext) ==
    /\ adapter.state # "pending"
    /\ LET built == buildRequestBody(ProviderName, messages,
                                     systemMessage(resourceContext))
           call == [NoAdapterCall EXCEPT !.op = op, !.messages = messages,
                                         !.resourceContext = resourceContext]
       IN  adapter' =
             IF built.t = "throw"
             THEN [call EXCEPT !.state = "settled",
                               !.result = MethodResult(op, ProviderName, NoResponse)]
             ELSE [call EXCEPT !.state = "pending",
                               !.requests = <<FetchRequest(ProviderName, apiKey,
                                                           messages, resourceContext)>>]
    /\ UNCHANGED <<hookVars, uiVars, ctxVars>>

\* The rest of the method once its fetch() has settled with `response`.
AdapterSettle(response) ==
    /\ adapter.state = "pending"
    /\ adapter' =
          [adapter EXCEPT
             !.state = "settled",
             !.response = response,
             !.classified =
                 IF response.t = "http" /\ ~Ok(response)
                 THEN parseError(response.status, ErrorData(response.body))
                 ELSE NoAdapterCall.classified,
             !.result = MethodResult(adapter.op, ProviderName, response)]
    /\ UNCHANGED <<hookVars, uiVars, ctxVars>>

\* The inputs of the adapter's runs.
AdapterProviders == ProviderIds \cup {"mistral", "constructor"}

MessagePool ==
    { [role |-> "user", content |-> <<"u1">>],
      [role |-> "assistant", content |-> <<"a1">>],
      [role |-> "system", content |-> <<"s1">>],
      [role |-> "user", content |-> <<"u2">>] }

\* Longest history passed to chat.
MaxHistory == 2

AdapterHistories == UNION { [1..n -> MessagePool] : n \in 0..MaxHistory }

BillingMessage == <<"Check your ">> \o Billing \o <<" details">>

ErrorStatuses == {304, 400, 401, 404, 429, 500, 502, 503}

ErrorBodies ==
    { BodyUnparsable, BodyNull, BodyEmptyObject,
      BodyErrorMessage(JStr(QuotaMessage)),
      BodyErrorMessage(JStr(BillingMessage)),
      BodyErrorMessage(JStr(<<"model not found">>)),
      BodyErrorMessage(JStr(<<>>)),
      BodyErrorMessage(JNum),
      BodyErrorMessage(JAbsent),
      BodyMessage(JStr(<<"slow down">>)),
      BodyMessage(JStr(BillingMessage)),
      [BodyErrorMessage(JStr(<<"model not found">>))
          EXCEPT !.message = JStr(QuotaMessage)] }

\* A success body with the reply at one vendor's path only.
BodyChoices(f) == [BodyEmptyObject EXCEPT !.choices = f]
BodyContent(f) == [BodyEmptyObject EXCEPT !.content = f]
BodyCandidates(f) == [BodyEmptyObject EXCEPT !.candidates = f]

ReplyValues == { JStr(<<"A plain answer">>), JStr(<<>>), JNum }

ReplyTexts ==
    { <<"Intro text ", "[", "{card1}", "]", " trailing">>,
      <<"[", "{card1}", ",", " ", "{card2}", "]">>,
      <<"Here: ", "[", "{quiz1}", ",", "{quizBad}", "]">>,
      <<"[", "{card1}", "]", " or ", "[", "{card2}", "]">>,
      <<"See ", "[", "[", "{card1}", "]", ",", "{card2}", "]", ".">>,
      <<"]", " then ", "[">>,
      <<"[", "{card1}", ",", "]">>,
      <<"[", " ", "]">>,
      <<"{card1}">> }

SuccessStatuses == {200, 299}

SuccessBodies ==
    { BodyUnparsable, BodyNull, BodyEmptyObject }
    \cup { BodyChoices(f) : f \in ReplyValues }
    \cup { BodyContent(f) : f \in ReplyValues }
    \cup { BodyCandidates(f) : f \in ReplyValues }
    \cup { BodyReply(JStr(text)) : text \in ReplyTexts }

AdapterResponses ==
    { TransportFailure }
    \cup { HttpResponse(status, body) : status \in ErrorStatuses, body \in ErrorBodies }
    \cup { HttpResponse(status, body) : status \in SuccessStatuses, body \in SuccessBodies }

InitAdapter ==
    /\ apiKey = <<"sk-test">>
    /\ provider \in AdapterProviders
    /\ resourceContent = <<>>
    /\ InitHookState
    /\ InitViewState
    /\ adapter = NoAdapterCall
    /\ InitContextLoaded

AdapterChat ==
    \E messages \in AdapterHistories, resourceContext \in Contents :
        AdapterCall("chat", messages, resourceContext)

AdapterGenerateSummary ==
    \E content \in Contents :
        AdapterCall("generateSummary", SummaryPrompt(content), <<>>)

AdapterGenerateFlashcards ==
    \E content \in Contents :
        AdapterCall("generateFlashcards", FlashcardsPrompt(content), <<>>)

AdapterGenerateQuiz ==
    \E content \in Contents :
        AdapterCall("generateQuiz", QuizPrompt(content), <<>>)

FetchSettles == \E response \in AdapterResponses : AdapterSettle(response)

NextAdapter ==
    \/ AdapterChat
    \/ AdapterGenerateSummary
    \/ AdapterGenerateFlashcards
    \/ AdapterGenerateQuiz
    \/ FetchSettles

SpecAdapter == InitAdapter /\ [][NextAdapter]_vars

(***************************************************************************)
(* Properties of the adapter (SpecAdapter)                                 *)
(***************************************************************************)

\* The adapter call has settled on an HTTP response that is not 2xx.
SettledOnError ==
    /\ adapter.state = "settled"
    /\ adapter.response.t = "http"
    /\ ~Ok(adapter.response)

\* The error the classifier returned is of this kind with this message.
Classified(type, message) ==
    /\ adapter.classified.t = "return"
    /\ adapter.classified.e.type = type
    /\ adapter.classified.e.message = message

\* C11: the classifier maps status 401 to kind auth with the message
\* "Invalid API key" and each of 500, 502, 503 to kind network with the
\* message "Service temporarily unavailable", whatever the error body
\* (absent or unparsable included) and whatever the provider.
C11_FixedStatusClassification ==
    SettledOnError =>
        /\ adapter.response.status = 401 =>
               Classified("auth", <<"Invalid API key">>)
        /\ adapter.response.status \in {500, 502, 503} =>
               Classified("network", <<"Service temporarily unavailable">>)

\* The message a vendor error body carries: error.message, else message;
\* absent when the body has neither or is no object.
VendorMessage(body) ==
    IF body.t # "obj" THEN JAbsent
    ELSE IF body.error.t = "obj" /\ Truthy(body.error.message)
    THEN body.error.message
    ELSE body.message

MentionsBilling(f) ==
    f.t = "str" /\ (Includes(f.s, Quota) \/ Includes(f.s, Billing))

\* C12: status 429 is classified as kind quota in every case; the
\* suggestion is the billing one exactly when the vendor message contains
\* "quota" or "billing", and the wait-and-retry one otherwise, a body
\* without a message included.
C12_RateLimitClassification ==
    SettledOnError /\ adapter.response.status = 429 =>
        /\ adapter.classified.t = "return"
        /\ adapter.classified.e.type = "quota"
        /\ adapter.classified.e.suggestion =
              IF MentionsBilling(VendorMessage(adapter.response.body))
              THEN <<"Please check your billing details or try a different API provider.">>
              ELSE <<"Please wait a moment and try again.">>

FixedStatuses == {401, 429, 500, 502, 503}

\* C13 as stated: every non-2xx status other than 401, 429, 500, 502, 503
\* is classified as kind unknown, with the vendor body's message when the
\* body carries one and "Unknown error" otherwise, an error body that
\* could not be parsed included.  (Stated of the errors the classifier
\* returns.)
C13_OtherStatusUnknown ==
    /\ SettledOnError
    /\ adapter.response.status \notin FixedStatuses
    /\ adapter.classified.t = "return"
    => LET message == VendorMessage(adapter.response.body) IN
       Classified("unknown",
                  IF Truthy(message) THEN message.s ELSE <<"Unknown error">>)

\* C13: every non-2xx status other than 401, 429, 500, 502, 503 is
\* classified as kind unknown, with the vendor body's message when the body
\* carries a non-empty one, with "Failed to parse error response" when the
\* body could not be parsed, and with "Unknown error" otherwise; for the
\* JSON body null the classifier throws and chat raises the connection
\* failure.
C13_OtherStatusClassification ==
    SettledOnError /\ adapter.response.status \notin FixedStatuses =>
        LET body == adapter.response.body
            message == VendorMessage(body)
        IN  CASE body.t = "null" ->
                    /\ adapter.classified.t = "throw"
                    /\ adapter.op = "chat" =>
                           /\ adapter.result.t = "reject"
                           /\ adapter.result.thrown = ThrownAPIError(ConnectionFailed)
              [] body.t = "unparsable" ->
                    Classified("unknown", <<"Failed to parse error response">>)
              [] OTHER ->
                    Classified("unknown",
                               IF Truthy(message) THEN message.s
                               ELSE <<"Unknown error">>)

\* A 404 without a parsable body has been classified.
C13_Witness ==
    /\ SettledOnError
    /\ adapter.response.status = 404
    /\ adapter.response.body = BodyUnparsable
    /\ Classified("unknown", <<"Failed to parse error response">>)

HeaderNames(request) == { h[1] : h \in request.headers }

\* C14: a request of the Anthropic profile carries the x-api-key header
\* and the version header and no Authorization header; a request of the
\* OpenAI or Google profile carries the bearer Authorization header and no
\* x-api-key header.
C14_VendorAuthHeaders ==
    \A i \in 1..Len(adapter.requests) :
        LET request == adapter.requests[i]
            names == HeaderNames(request)
        IN  /\ ProviderName = "Anthropic" =>
                   /\ <<"x-api-key", apiKey>> \in request.headers
                   /\ "anthropic-version" \in names
                   /\ "Authorization" \notin names
            /\ ProviderName \in {"OpenAI", "Google"} =>
                   /\ <<"Authorization", <<"Bearer ">> \o apiKey>> \in request.headers
                   /\ "x-api-key" \notin names

\* The positions of the caller's messages that are not of role system, and
\* the k-th of them.
NonSystem(messages) ==
    { i \in 1..Len(messages) : messages[i].role # "system" }

KthNonSystem(messages, k) ==
    CHOOSE i \in NonSystem(messages) :
        Cardinality({ j \in NonSystem(messages) : j <= i }) = k

\* C15: whatever the history, the request body holds none of the caller's
\* system messages, holds the other messages in their original order, and
\* holds the system instruction once, in the vendor's place: the first
\* message, of role system, for OpenAI; the top-level system member for
\* Anthropic; the first entry of contents for Google.  The role assistant
\* becomes model for Google only.
C15_RequestBodyShape ==
    \A r \in 1..Len(adapter.requests) :
        LET body == adapter.requests[r].body
            given == adapter.messages
            n == Cardinality(NonSystem(given))
            instruction == systemMessage(adapter.resourceContext)
            kept(k) == given[KthNonSystem(given, k)]
        IN  CASE ProviderName = "OpenAI" ->
                    /\ Len(body.messages) = n + 1
                    /\ body.messages[1] = [role |-> "system", content |-> instruction]
                    /\ \A k \in 1..n : body.messages[k + 1] = kept(k)
              [] ProviderName = "Anthropic" ->
                    /\ body.system = instruction
                    /\ Len(body.messages) = n
                    /\ \A k \in 1..n : body.messages[k] = kept(k)
              [] ProviderName = "Google" ->
                    /\ Len(body.contents) = n + 1
                    /\ body.contents[1] = [parts |-> <<[text |-> instruction]>>]
                    /\ \A k \in 1..n :
                          body.contents[k + 1] =
                              [parts |-> <<[text |-> kept(k).content]>>,
                               role |-> IF kept(k).role = "assistant"
                                        THEN "model" ELSE kept(k).role]

\* A Google request built from a history that holds a system message and
\* an assistant message.
C15_Witness ==
    /\ ProviderName = "Google"
    /\ adapter.requests # <<>>
    /\ \E i, j \in 1..Len(adapter.messages) :
          /\ adapter.messages[i].role = "system"
          /\ adapter.messages[j].role = "assistant"

\* C16 as stated (Spec): every configured orchestrator operation issues
\* exactly one HTTP POST when it is invoked, and none is issued when a call
\* settles, whatever its outcome.
C16_ExactlyOnePost ==
    [][ /\ issued' = issued => netCalls' = netCalls
        /\ issued' # issued /\ Configured => netCalls' = netCalls + 1 ]_vars

\* C16 (Spec): an adapter chat call issues one HTTP POST when the adapter
\* holds one of the three profiles and none otherwise, and nothing is
\* issued when the call settles, whatever its outcome.  A configured
\* orchestrator operation makes one adapter call, except a generation with
\* empty content, which makes none.
C16_AtMostOnePost ==
    [][ LET started == calls' \ calls IN
        /\ issued' = issued => netCalls' = netCalls /\ started = {}
        /\ issued' # issued =>
              /\ Cardinality(started) <= 1
              /\ started = {} <=>
                     \/ ~Configured
                     \/ resourceContent = <<>> /\ last'.id = issued'
                                              /\ last'.op \in Generations
              /\ started = {} => netCalls' = netCalls
              /\ \A c \in started :
                     /\ netCalls' = netCalls + Len(c.requests)
                     /\ Len(c.requests) =
                            IF ProviderName \in Profiles THEN 1 ELSE 0
                     /\ \A i \in 1..Len(c.requests) :
                            c.requests[i].method = "POST" ]_vars

\* A provider call has failed and its operation has completed with the
\* one request it issued.
C16_Witness ==
    /\ last.called /\ last.failed
    /\ calls = {}
    /\ issued = 1
    /\ netCalls = 1

Kinds == {"quota", "auth", "network", "unknown"}

\* The adapter's chat has settled.
ChatSettled == adapter.state = "settled" /\ adapter.op = "chat"

\* C17: every failure of chat is a classified error of kind quota, auth,
\* network or unknown; on a non-2xx response it is the error the
\* classifier yields for the status and body; on a transport failure, and
\* on a success body that fails to parse, it is the network error
\* "Connection failed".
C17_ChatFailuresClassified ==
    ChatSettled =>
        /\ adapter.result.t = "reject" =>
               /\ adapter.result.thrown.t = "APIError"
               /\ adapter.result.thrown.e.type \in Kinds
        /\ SettledOnError =>
               /\ adapter.result.t = "reject"
               /\ adapter.classified.t = "return"
               /\ adapter.result.thrown = ThrownAPIError(adapter.classified.e)
        /\ \/ adapter.response.t = "reject"
           \/ /\ adapter.response.t = "http"
              /\ Ok(adapter.response)
              /\ adapter.response.body.t = "unparsable"
           => /\ adapter.result.t = "reject"
              /\ adapter.result.thrown = ThrownAPIError(ConnectionFailed)

\* The adapter's chat has settled on a 2xx response.
ChatSettledOnSuccess ==
    /\ ChatSettled
    /\ adapter.response.t = "http"
    /\ Ok(adapter.response)

\* The value at the response path of the profile: choices[0].message.content,
\* content[0].text, candidates[0].content.parts[0].text.
PathValue(name, body) ==
    CASE name = "OpenAI" -> body.choices
      [] name = "Anthropic" -> body.content
      [] name = "Google" -> body.candidates

NoResponseReceived == JStr(<<"No response received">>)

\* C18 as stated: on a 2xx response with a JSON object as body, chat
\* returns what is at the response path of the selected profile, and
\* returns "No response received" exactly when the path is absent; it does
\* not raise.
C18_ReturnsPathOrLiteral ==
    ChatSettledOnSuccess /\ adapter.response.body.t = "obj" =>
        LET found == PathValue(ProviderName, adapter.response.body) IN
        /\ adapter.result.t = "resolve"
        /\ adapter.result.v =
              IF found.t = "absent" THEN NoResponseReceived ELSE found

\* C18: on a 2xx response with a JSON object as body, chat returns what is
\* at the response path of the selected profile when that is present and
\* not empty, and "No response received" when the path is absent or holds
\* the empty string; it does not raise.  On a 2xx response whose body is
\* not JSON, or is null, chat raises the connection failure.
C18_ReturnsPathOrLiteralForEmpty ==
    ChatSettledOnSuccess =>
        IF adapter.response.body.t = "obj"
        THEN LET found == PathValue(ProviderName, adapter.response.body) IN
             /\ adapter.result.t = "resolve"
             /\ adapter.result.v =
                   IF found.t = "absent" \/ found = JStr(<<>>)
                   THEN NoResponseReceived ELSE found
        ELSE /\ adapter.result.t = "reject"
             /\ adapter.result.thrown = ThrownAPIError(ConnectionFailed)

\* An Anthropic reply whose content[0].text is the empty string has been
\* answered with the literal.
C18_Witness ==
    /\ ChatSettledOnSuccess
    /\ ProviderName = "Anthropic"
    /\ adapter.response.body = BodyContent(JStr(<<>>))
    /\ adapter.result.t = "resolve"
    /\ adapter.result.v = NoResponseReceived

\* C19: a provider identifier outside the three known ones selects the
\* OpenAI profile, so the adapter holds one of the three profiles and no
\* call reaches the unsupported-provider branch of buildRequestBody.
C19_UnknownProviderDefaults ==
    adapter.state # "idle" =>
        /\ provider \notin ProviderIds => ProviderName = "OpenAI"
        /\ ProviderName \in Profiles
        /\ buildRequestBody(ProviderName, adapter.messages,
                            systemMessage(adapter.resourceContext)).t = "return"
        /\ Len(adapter.requests) = 1

\* generateFlashcards or generateQuiz has settled, its chat having resolved
\* with a text.
ArrayMethodSettledOnText ==
    /\ adapter.state = "settled"
    /\ adapter.op \in {"generateFlashcards", "generateQuiz"}
    /\ chat(ProviderName, adapter.response).t = "resolve"
    /\ chat(ProviderName, adapter.response).v.t = "str"

FallbackOf(op) ==
    IF op = "generateFlashcards" THEN createFallbackFlashcards
    ELSE createFallbackQuiz

\* C20: given a successful response text, generateFlashcards and
\* generateQuiz return the parse of the substring from the first "[" to the
\* last "]" inclusive, so a single bracketed array surrounded by prose
\* gives what parsing the array alone gives (Intro text [{"question":"Q1",
\* "answer":"A1"}] trailing gives [{question:"Q1", answer:"A1"}]); a text
\* without a bracketed array, or whose substring does not parse, takes the
\* fallback path.
C20_ParsesBracketedSubstring ==
    ArrayMethodSettledOnText =>
        LET text == chat(ProviderName, adapter.response).v.s
            opens == { i \in 1..Len(text) : text[i] = "[" }
            closes == { j \in 1..Len(text) : text[j] = "]" }
            bracketed ==
                \E i \in opens, j \in closes : i < j
            first == CHOOSE i \in opens : \A k \in opens : i <= k
            final == CHOOSE j \in closes : \A k \in closes : k <= j
        IN  /\ adapter.result.t = "resolve"
            /\ bracketed /\ JsonParse(SubSeq(text, first, final)).ok =>
                   adapter.result.v = JsonParse(SubSeq(text, first, final)).val
            /\ bracketed /\ ~JsonParse(SubSeq(text, first, final)).ok =>
                   adapter.result.v = FallbackOf(adapter.op)
            /\ ~bracketed => adapter.result.v = FallbackOf(adapter.op)
            /\ text = <<"Intro text ", "[", "{card1}", "]", " trailing">> =>
                   adapter.result.v = JArray(<<Card(<<"Q1">>, <<"A1">>)>>)

\* generateFlashcards has returned the one card of an array that stood
\* between prose.
C20_Witness ==
    /\ ArrayMethodSettledOnText
    /\ adapter.op = "generateFlashcards"
    /\ chat(ProviderName, adapter.response).v.s =
          <<"Intro text ", "[", "{card1}", "]", " trailing">>
    /\ adapter.result.v = JArray(<<Card(<<"Q1">>, <<"A1">>)>>)

(***************************************************************************)
(* Properties of the orchestrator (Spec), continued                        *)
(***************************************************************************)

\* What the adapter's chat made of the response of the last completed
\* operation.
LastChat == chat(ProviderName, last.response)

\* The last completed operation is `op`, and it called the provider.
LastCalled(op) == last.op = op /\ last.called

\* The text has a "[" with a "]" after it; the part from its first "[" to
\* its last "]".
Bracketed(text) ==
    \E i, j \in 1..Len(text) : i < j /\ text[i] = "[" /\ text[j] = "]"

BracketedPart(text) ==
    LET first == CHOOSE i \in 1..Len(text) :
                     text[i] = "[" /\ \A k \in 1..(i - 1) : text[k] # "["
        final == CHOOSE j \in 1..Len(text) :
                     text[j] = "]" /\ \A k \in (j + 1)..Len(text) : text[k] # "]"
    IN  SubSeq(text, first, final)

\* The three ways the artifact of a reply is lost: the provider call
\* fails, the reply has no bracketed array, the bracketed part does not
\* parse.
CallFailed == LastChat.t = "reject"

NoArray == /\ LastChat.t = "resolve" /\ LastChat.v.t = "str"
           /\ ~Bracketed(LastChat.v.s)

ArrayUnparsable ==
    /\ LastChat.t = "resolve" /\ LastChat.v.t = "str"
    /\ Bracketed(LastChat.v.s)
    /\ ~JsonParse(BracketedPart(LastChat.v.s)).ok

IsFlashcard(v) ==
    /\ v.t = "obj"
    /\ v.question.t = "str"
    /\ v.answer.t = "str"

\* { question, options, correct }: a quiz entry of 4 options with its
\* correct index among them.
IsQuizEntry(v) ==
    /\ v.t = "obj"
    /\ v.question.t = "str"
    /\ v.options.t = "arr" /\ Len(v.options.items) = 4
    /\ v.correct.t = "num" /\ v.correct.n \in 0..3

\* C22: whatever the content, the outcome of the provider call and the
\* reply text, generateFlashcards and generateQuiz return a non-empty
\* sequence whose every element has its shape: a question and an answer
\* for a flashcard; a question, exactly 4 options and a correct index in
\* 0..3 for a quiz entry.
C22_ArtifactsWellShaped ==
    adapter.state = "settled" =>
        /\ adapter.op = "generateFlashcards" =>
               /\ adapter.result.t = "resolve"
               /\ adapter.result.v.t = "arr"
               /\ adapter.result.v.items # <<>>
               /\ \A i \in 1..Len(adapter.result.v.items) :
                      IsFlashcard(adapter.result.v.items[i])
        /\ adapter.op = "generateQuiz" =>
               /\ adapter.result.t = "resolve"
               /\ adapter.result.v.t = "arr"
               /\ adapter.result.v.items # <<>>
               /\ \A i \in 1..Len(adapter.result.v.items) :
                      IsQuizEntry(adapter.result.v.items[i])

\* The canned summary that ends the text generateSummary's catch block returns.
CannedSummary ==
    <<"\n\nFallback Summary:\nThis content contains educational material that can be used for learning purposes. Key concepts include understanding the main topics, extracting important information, and creating study materials for better comprehension.">>

\* The text generateSummary's catch block returns for the classified error e.
SummaryFallbackText(e) ==
    <<"Unable to generate AI summary due to: ">>
    \o e.message \o <<". ">> \o e.suggestion \o CannedSummary

\* C23: when the provider call of a configured summarize fails with the
\* classified error e, summarize returns (it does not raise) the text that
\* embeds e.message and e.suggestion followed by the canned summary, and
\* the last error is e when it has completed.
C23_SummaryFallbackEmbedsError ==
    [][(Completes /\ last'.op = "summary" /\ last'.failed)
          => /\ last'.how = "returned"
             /\ last'.val = TextValue(JStr(SummaryFallbackText(last'.callErr)))
             /\ error' = last'.callErr]_vars

\* A summarize whose provider call was rate-limited has returned the
\* fallback text and the last error is the rate-limit error.
C23_Witness ==
    /\ last.op = "summary"
    /\ last.failed
    /\ last.response.status = 429
    /\ last.how = "returned"
    /\ last.val = TextValue(JStr(SummaryFallbackText(last.callErr)))
    /\ error = last.callErr

(***************************************************************************)
(* A chat turn: sendChatMessage called with histories of every make-up    *)
(* and with contents on both sides of the context limit                    *)
(***************************************************************************)

MaxTurns == 2
MaxTurnHistory == 2

\* A content longer than the context limit; what lies beyond the limit is
\* told apart from what lies before it.
LongContent ==
    [i \in 1..(ContextLimit + 2) |-> IF i <= ContextLimit THEN "a" ELSE "z"]

TurnContents == Contents \cup { LongContent }
TurnProviders == { "openai", "anthropic", "google", "constructor" }

\* The new message equals one the history may hold already.
TurnMessages == { <<"hello">> }
TurnPool == { Greeting, [role |-> "user", message |-> <<"hello">>] }
TurnHistories == UNION { [1..n -> TurnPool] : n \in 0..MaxTurnHistory }

InitChat ==
    /\ apiKey \in ApiKeys
    /\ provider \in TurnProviders
    /\ resourceContent \in TurnContents
    /\ InitHookState
    /\ InitViewState
    /\ adapter = NoAdapterCall
    /\ InitContextLoaded

ChatTurn ==
    /\ issued < MaxTurns
    /\ \E message \in TurnMessages, history \in TurnHistories :
          sendChatMessage(message, history) /\ UNCHANGED <<uiVars, adapter, ctxVars>>

NextChat ==
    \/ ChatTurn
    \/ ChatSettles

SpecChat == InitChat /\ [][NextChat]_vars

(***************************************************************************)
(* Properties of a chat turn (SpecChat)                                    *)
(***************************************************************************)

\* The system instruction of a request body, read from the vendor's place.
SystemInstruction(name, body) ==
    CASE name = "OpenAI" -> body.messages[1].content
      [] name = "Anthropic" -> body.system
      [] name = "Google" -> body.contents[1].parts[1].text

\* The first n characters of a text.
FirstChars(text, n) == [i \in 1..(IF Len(text) < n THEN Len(text) ELSE n) |-> text[i]]

\* C24: a chat turn passes to the adapter the whole history in its order,
\* role ai mapped to assistant and user kept, followed by the new user
\* message exactly once as the last element, together with the source
\* content; the system instruction of the request embeds the first 1000
\* characters of that content and nothing beyond them.
C24_ChatTurnForwarding ==
    [][\A message \in TurnMessages, history \in TurnHistories :
          (Configured /\ sendChatMessage(message, history))
              => \E c \in calls' \ calls :
                    /\ c.op = "chat"
                    /\ Len(c.messages) = Len(history) + 1
                    /\ \A i \in 1..Len(history) :
                          /\ c.messages[i].content = history[i].message
                          /\ history[i].role = "ai"
                                => c.messages[i].role = "assistant"
                          /\ history[i].role = "user"
                                => c.messages[i].role = "user"
                    /\ c.messages[Len(history) + 1] =
                          [role |-> "user", content |-> message]
                    /\ c.context = resourceContent
                    /\ \A r \in 1..Len(c.requests) :
                          SystemInstruction(ProviderName, c.requests[r].body) =
                              IF resourceContent = <<>>
                              THEN <<"You are an AI learning assistant. Help the user with their questions.">>
                              ELSE <<"You are an AI learning assistant. Help the user understand and learn from this content: ">>
                                   \o FirstChars(resourceContent, 1000)
                                   \o <<"...">>]_vars

\* A chat turn on a content of 1002 characters and a history of an ai and a
\* user entry is in flight: three messages were passed on, and the system
\* instruction of the Google request holds 1000 characters of the content.
C24_Witness ==
    \E c \in calls :
        /\ c.op = "chat"
        /\ resourceContent = LongContent
        /\ c.context = LongContent
        /\ Len(c.messages) = 3
        /\ c.messages[1].role = "assistant"
        /\ c.messages[3] = [role |-> "user", content |-> <<"hello">>]
        /\ ProviderName = "Google"
        /\ Len(c.requests) = 1
        /\ Len(SystemInstruction("Google", c.requests[1].body)) = 1002
        /\ \A i \in 1..1002 :
              SystemInstruction("Google", c.requests[1].body)[i] # "z"

(***************************************************************************)
(* The orchestrator when every provider call settles: each await of a      *)
(* provider call is resumed once its promise resolves or rejects           *)
(***************************************************************************)

MaxFairCalls == 2

\* What a provider call settles with: a transport failure, a classified
\* failure, a plain reply and a reply that holds an array.
FairResponses ==
    { TransportFailure,
      HttpResponse(429, BodyErrorMessage(JStr(QuotaMessage))),
      HttpResponse(200, BodyReply(JStr(<<"A plain answer">>))),
      HttpResponse(200, BodyReply(JStr(<<"Intro text ", "[", "{card1}", "]", " trailing">>))) }

FairSettlements(c) == IF c.requests = <<>> THEN {NoResponse} ELSE FairResponses

StartSendChatMessage ==
    /\ issued < MaxFairCalls
    /\ \E message \in Messages, history \in Histories :
          sendChatMessage(message, history) /\ UNCHANGED <<uiVars, adapter, ctxVars>>

StartGenerateSummary ==
    issued < MaxFairCalls /\ generateSummary /\ UNCHANGED <<uiVars, adapter, ctxVars>>

StartGenerateFlashcards ==
    issued < MaxFairCalls /\ generateFlashcards /\ UNCHANGED <<uiVars, adapter, ctxVars>>

StartGenerateQuiz ==
    issued < MaxFairCalls /\ generateQuiz /\ UNCHANGED <<uiVars, adapter, ctxVars>>

ChatCallSettles ==
    \E c \in calls : \E response \in FairSettlements(c) :
        sendChatMessageResume(c, response) /\ UNCHANGED <<uiVars, adapter, ctxVars>>

SummaryCallSettles ==
    \E c \in calls : \E response \in FairSettlements(c) :
        generateSummaryResume(c, response) /\ UNCHANGED <<uiVars, adapter, ctxVars>>

FlashcardsCallSettles ==
    \E c \in calls : \E response \in FairSettlements(c) :
        generateFlashcardsResume(c, response) /\ UNCHANGED <<uiVars, adapter, ctxVars>>

QuizCallSettles ==
    \E c \in calls : \E response \in FairSettlements(c) :
        generateQuizResume(c, response) /\ UNCHANGED <<uiVars, adapter, ctxVars>>

NextFair ==
    \/ StartSendChatMessage
    \/ StartGenerateSummary
    \/ StartGenerateFlashcards
    \/ StartGenerateQuiz
    \/ ChatCallSettles
    \/ SummaryCallSettles
    \/ FlashcardsCallSettles
    \/ QuizCallSettles

\* Each provider call eventually resolves or rejects, and the operation
\* awaiting it is then resumed.
EveryCallSettles ==
    /\ WF_vars(ChatCallSettles)
    /\ WF_vars(SummaryCallSettles)
    /\ WF_vars(FlashcardsCallSettles)
    /\ WF_vars(QuizCallSettles)

SpecFair == Init /\ [][NextFair]_vars /\ EveryCallSettles

(***************************************************************************)
(* Properties of the orchestrator when every call settles (SpecFair)       *)
(***************************************************************************)

\* The operation issued as number id awaits its provider call.
Awaiting(id) == \E c \in calls : c.id = id

\* The operation issued as number id has just returned or raised.
Completed(id) == last.id = id /\ last.how \in {"returned", "raised"}

\* C25: provided each provider call eventually resolves or rejects, every
\* operation that awaits one eventually returns or raises; whenever no
\* provider call is outstanding the busy flag is false, whether the calls
\* succeeded or failed; and once no further operation is started the busy
\* flag is false for good.
C25_OperationsRunToCompletion ==
    /\ \A id \in 1..MaxFairCalls : Awaiting(id) ~> Completed(id)
    /\ [](calls = {} => ~loading)
    /\ <>[](calls = {} /\ ~loading)

\* Two operations have been issued and have completed, the last of them
\* after its provider call failed, and the busy flag is false.
C25_Witness ==
    /\ issued >= 2
    /\ calls = {}
    /\ last.called
    /\ last.failed
    /\ last.how \in {"returned", "raised"}
    /\ ~loading

(***************************************************************************)
(* Properties of the viewer (SpecView), continued                          *)
(***************************************************************************)

\* The operation op is invoked in this step: it either awaits its provider
\* call or has completed before any.
Starts(op) ==
    /\ issued' = issued + 1
    /\ \/ \E c \in calls' \ calls : c.op = op
       \/ last'.id = issued + 1 /\ last'.op = op

\* The tab becomes the active one in this step.
Activated(tab) == activeTab # tab /\ activeTab' = tab

\* C26: short of Retry, a generation is started only in the step in which
\* its tab becomes active, and only if that tab is not in loadedTabs, which
\* then holds it; activating the chat tab starts no operation; activating
\* a tab that is in loadedTabs starts no operation and issues no request;
\* and short of Retry no tab leaves loadedTabs, so that every tab starts at
\* most one generation however the tabs are switched.
C26_LazyTabLoading ==
    [][/\ \A op \in Generations :
             (Starts(op) /\ ~retryContent)
                 => /\ Activated(op)
                    /\ op \notin loadedTabs
                    /\ op \in loadedTabs'
       /\ Activated("chat") => (issued' = issued /\ calls' = calls)
       /\ \A tab \in loadedTabs :
             Activated(tab)
                 => /\ issued' = issued
                    /\ calls' = calls
                    /\ netCalls' = netCalls
       /\ ~retryContent => loadedTabs \subseteq loadedTabs']_vars

\* The summary tab, activated before the flashcards tab, is active again:
\* the two generations of the first activations are the only operations.
C26_Witness ==
    /\ activeTab = "summary"
    /\ {"summary", "flashcards"} \subseteq loadedTabs
    /\ last.id = 2 /\ last.op = "flashcards"
    /\ issued = 2
    /\ netCalls = 2

\* The artifact a tab shows.
Artifact(tab) ==
    CASE tab = "summary" -> summary
      [] tab = "flashcards" -> flashcards
      [] tab = "quiz" -> quiz

\* The operations of kind op that await their provider call.
InFlight(op) == { c \in calls : c.op = op }

\* C27: a Retry leaves the artifacts of the tabs other than the active one,
\* their membership of loadedTabs, the active tab and the chat transcript
\* as they were; it clears the active tab's artifact, and after it the
\* active tab is in loadedTabs with exactly one new generation started for
\* it: one operation more, of the active tab's kind, one provider call
\* more.
C27_RetryOnlyActiveTab ==
    [][retryContent
          => /\ \A tab \in Generations \ {activeTab} :
                   /\ Artifact(tab)' = Artifact(tab)
                   /\ (tab \in loadedTabs') = (tab \in loadedTabs)
             /\ ("chat" \in loadedTabs') = ("chat" \in loadedTabs)
             /\ chatHistory' = chatHistory
             /\ activeTab' = activeTab
             /\ ArtifactEmpty(activeTab)'
             /\ activeTab \in loadedTabs'
             /\ Starts(activeTab)
             /\ issued' = issued + 1
             /\ Cardinality(calls' \ calls) = 1
             /\ calls \subseteq calls'
             /\ netCalls' = netCalls + 1]_vars

\* A second generation of the active tab is in flight beside the first,
\* which only a Retry starts; the summary tab is still in loadedTabs and
\* the transcript is the one the viewer opened with.
C27_Witness ==
    /\ activeTab = "flashcards"
    /\ Cardinality(InFlight("flashcards")) = 2
    /\ "summary" \in loadedTabs
    /\ Truthy(summary.f)
    /\ chatHistory = <<Greeting>>

\* The entries of the transcript that have the role.
EntriesOf(role) == { i \in 1..Len(chatHistory) : chatHistory[i].role = role }

\* A chat call's await is resumed in this step.
ChatCompletes == \E c \in InFlight("chat") : c \notin calls'

\* The ai entry handleSendMessage appends for the call that has completed.
ReplyEntry ==
    [role |-> "ai",
     message |-> IF LastChat.t = "reject"
                 THEN LastChat.thrown.e.message \o <<". ">>
                      \o LastChat.thrown.e.suggestion
                 ELSE LastChat.v.s]

\* C28: the transcript only grows at its end: every step leaves the
\* entries it held in place; an accepted send appends the trimmed message
\* as a user entry; the completion of a chat call appends one ai entry,
\* the reply if the call succeeded and the error's message and suggestion
\* if it failed; nothing else changes the transcript; and the ai entries
\* beside the greeting are as many as the user entries whose call has
\* completed, however sends and completions interleave.
C28_TranscriptAppendOnly ==
    [][/\ Len(chatHistory') >= Len(chatHistory)
       /\ SubSeq(chatHistory', 1, Len(chatHistory)) = chatHistory
       /\ handleSendMessage
             => chatHistory' =
                  chatHistory
                  \o <<[role |-> "user", message |-> Trim(chatMessage)]>>
       /\ ChatCompletes => chatHistory' = chatHistory \o <<ReplyEntry'>>
       /\ chatHistory' # chatHistory => (handleSendMessage \/ ChatCompletes)
       /\ Cardinality(EntriesOf("ai")') + Cardinality(InFlight("chat")')
             = 1 + Cardinality(EntriesOf("user")')]_vars

\* Two sends overlapped: both user entries precede both ai entries, one of
\* which is a reply and the other an error text.
C28_Witness ==
    /\ Len(chatHistory) = 5
    /\ chatHistory[2].role = "user" /\ chatHistory[3].role = "user"
    /\ chatHistory[4].role = "ai" /\ chatHistory[5].role = "ai"
    /\ chatHistory[4].message = <<"A plain answer">>
    /\ chatHistory[5].message =
         ConnectionFailed.message \o <<". ">> \o ConnectionFailed.suggestion

(***************************************************************************)
(* Properties of the orchestrator (Spec): empty content                    *)
(***************************************************************************)

\* The artifact a configured generation returns for an empty content.
DemoArtifact(op) ==
    CASE op = "summary" -> DemoSummary
      [] op = "flashcards" -> NoContentFlashcards
      [] op = "quiz" -> NoContentQuiz

\* C29: on a configured orchestrator whose source content is empty,
\* summarize, generateFlashcards and generateQuiz return their fixed demo
\* artifact in the step that invokes them, issue no request and start no
\* provider call, and leave the busy flag and the last error as they were.
C29_DemoOnEmptyContent ==
    [][\A op \in Generations :
          (Configured /\ resourceContent = <<>> /\ Starts(op))
              => /\ Completes
                 /\ last'.op = op
                 /\ ~last'.called
                 /\ last'.how = "returned"
                 /\ last'.val = DemoArtifact(op)
                 /\ netCalls' = netCalls
                 /\ calls' = calls
                 /\ loading' = loading
                 /\ error' = error]_vars

\* A configured summarize on empty content has returned the demo summary
\* while a chat is in flight: the busy flag is still set and the one
\* request is the chat's.
C29_Witness ==
    /\ Configured
    /\ resourceContent = <<>>
    /\ last.op = "summary"
    /\ last.val = DemoSummary
    /\ loading
    /\ InFlight("chat") # {}
    /\ netCalls = 1

(***************************************************************************)
(* The credential context from its mount on, under arbitrary calls of     *)
(* setApiKey and setProvider                                               *)
(***************************************************************************)

\* The state of the hook apart from the credentials.
callVars == <<resourceContent, loading, error, calls, issued, netCalls, last,
              lastFailure>>

\* The keys and provider identifiers the setters are called with: no key,
\* a blank one, keys of the vendors' formats and one with a blank behind
\* it (setApiKey does not trim); no identifier, the three of the profile
\* table and the two other ones of the hook's runs.
CredentialKeys ==
    { <<>>, <<" ">>, <<"sk-test">>, <<"sk-other">>, <<"sk-ant-test">>,
      <<"AIza-test">>, <<"sk-test", " ">> }
CredentialProviders ==
    { "", "openai", "anthropic", "google", "mistral", "constructor" }

\* The first visit: useState('') and useState('openai') before the effect
\* of the mount, and nothing in localStorage.
InitCredentials ==
    /\ apiKey = <<>>
    /\ provider = "openai"
    /\ mounted = FALSE
    /\ storedKey = NoItem
    /\ storedProvider = NoItem
    /\ resourceContent = <<>>
    /\ InitHookState
    /\ InitViewState
    /\ adapter = NoAdapterCall

Mount == LoadSaved /\ UNCHANGED <<callVars, uiVars, adapter>>

CallSetApiKey ==
    /\ mounted
    /\ \E key \in CredentialKeys :
          setApiKey(key) /\ UNCHANGED <<callVars, uiVars, adapter>>

CallSetProvider ==
    /\ mounted
    /\ \E newProvider \in CredentialProviders :
          setProvider(newProvider) /\ UNCHANGED <<callVars, uiVars, adapter>>

\* The page is loaded anew: the context is constructed again and
\* localStorage is what the session before has left.
Reload ==
    /\ mounted
    /\ mounted' = FALSE
    /\ apiKey' = <<>>
    /\ provider' = "openai"
    /\ UNCHANGED <<storedKey, storedProvider, callVars, uiVars, adapter>>

NextCredentials ==
    \/ Mount
    \/ CallSetApiKey
    \/ CallSetProvider
    \/ Reload

SpecCredentials == InitCredentials /\ [][NextCredentials]_vars

(***************************************************************************)
(* Properties of the credential context (SpecCredentials)                  *)
(***************************************************************************)

\* C30: once the saved values are loaded, whatever setApiKey and
\* setProvider calls follow, the stored key is the key in memory when that
\* is not empty and there is no stored key when it is empty; a step of a
\* mounted context that changes the provider in memory or the stored
\* provider leaves the two equal, and equal they stay while the context is
\* mounted; and isConfigured is true exactly when the key in memory is not
\* empty.
C30_CredentialsConsistent ==
    [][mounted' =>
          /\ Len(apiKey') > 0 => storedKey' = Item(apiKey')
          /\ Len(apiKey') = 0 => storedKey' = NoItem
          /\ APIKey_isConfigured' = (Len(apiKey') > 0)
          /\ (mounted /\ <<provider, storedProvider>>' # <<provider, storedProvider>>)
                => storedProvider' = Item(provider')
          /\ (mounted /\ storedProvider = Item(provider))
                => storedProvider' = Item(provider')]_vars

\* A key and a provider that setApiKey and setProvider were called with are
\* in memory and in localStorage alike.
C30_Witness ==
    /\ mounted
    /\ apiKey = <<"sk-other">>
    /\ storedKey = Item(<<"sk-other">>)
    /\ provider = "google"
    /\ storedProvider = Item("google")
    /\ APIKey_isConfigured

====
